---- MODULE Spec2Model ----
(***************************************************************************)
(* BlenderFDS, zzz_blenderfds/types.py: the descriptor framework that maps *)
(* Blender properties to FDS namelist text and back (BFProp, BFNamelist,   *)
(* BFScene).                                                               *)
(*                                                                         *)
(* Text is a sequence of one-character strings.  A Python value is a       *)
(* record [k, items]: k = "none" is None, k = "scalar" holds one atom,     *)
(* k = "seq" is a tuple of atoms.  An atom is [t, n, s]: a bool (n is 0 or *)
(* 1), an int n, a float n / 10^FloatDigits, or a str s.                   *)
(***************************************************************************)
EXTENDS Integers, Sequences, FiniteSets, TLC

VARIABLES
  pc,        \* position of the run: "ready" before the call, "done" after it
  op,        \* the method that was called
  bf_prop,   \* the BFProp class under call (property-level runs)
  element,   \* the Blender element: attribute name -> value
  ret,       \* what the call returned or raised
  bf_namelist, \* the BFNamelist class under call (namelist-level runs)
  instance,  \* the BFNamelist instance in use: its infos and its bf_props' infos
  inst_id,   \* which instance it is: incremented when a new one is made
  exports,   \* the to_fds calls made so far: what each returned, on which instance
  format_params, \* the params handed to BFNamelist.format
  mutated,   \* whether the element was edited after the first export
  imported,  \* the import of an exported record into a fresh element
  scene      \* the scene of the scene-level runs

nlVars ==
  <<bf_namelist, instance, inst_id, exports, format_params, mutated, imported, scene>>
vars == <<pc, op, bf_prop, element, ret, nlVars>>

(***************************************************************************)
(* Bounds of the model                                                     *)
(***************************************************************************)
MaxSeqLen == 2      \* longest tuple value handed to BFProp.format
MaxStrLen == 2      \* longest string value handed to the string checks
MaxParams == 3      \* most scalar params handed to BFNamelist.format
MaxAlt == 3         \* most alternative bodies of a multiparam
MaxExports == 2     \* most to_fds calls of one run

(***************************************************************************)
(* Text                                                                    *)
(***************************************************************************)
RECURSIVE Join(_, _)
Join(sep, texts) ==
  IF Len(texts) = 0 THEN <<>>
  ELSE IF Len(texts) = 1 THEN texts[1]
  ELSE texts[1] \o sep \o Join(sep, Tail(texts))

RECURSIVE Concat(_)
Concat(texts) ==
  IF Len(texts) = 0 THEN <<>> ELSE texts[1] \o Concat(Tail(texts))

In(c, text) == \E i \in 1..Len(text) : text[i] = c

InSub(sub, text) ==
  \E i \in 1..Len(text) :
    /\ i + Len(sub) - 1 <= Len(text)
    /\ SubSeq(text, i, i + Len(sub) - 1) = sub

Count(c, text) == Cardinality({i \in 1..Len(text) : text[i] = c})

Prefix(text, n) == SubSeq(text, 1, IF Len(text) < n THEN Len(text) ELSE n)

RECURSIVE Pow10(_)
Pow10(k) == IF k = 0 THEN 1 ELSE 10 * Pow10(k - 1)

DigitChar(d) == <<"0", "1", "2", "3", "4", "5", "6", "7", "8", "9">>[d + 1]

RECURSIVE Decimal(_)
Decimal(n) ==
  IF n < 0 THEN <<"-">> \o Decimal(-n)
  ELSE IF n < 10 THEN <<DigitChar(n)>>
  ELSE Decimal(n \div 10) \o <<DigitChar(n % 10)>>

RECURSIVE Padded(_, _)
Padded(n, width) ==
  IF width = 0 THEN <<>>
  ELSE Padded(n \div 10, width - 1) \o <<DigitChar(n % 10)>>

(***************************************************************************)
(* Python values                                                           *)
(***************************************************************************)
FloatDigits == 4

PyBool(b) == [t |-> "bool", n |-> IF b THEN 1 ELSE 0, s |-> <<>>]
PyInt(n) == [t |-> "int", n |-> n, s |-> <<>>]
PyFloat(m) == [t |-> "float", n |-> m, s |-> <<>>]
PyStr(s) == [t |-> "str", n |-> 0, s |-> s]

None == [k |-> "none", items |-> <<>>]
Scalar(a) == [k |-> "scalar", items |-> <<a>>]
Tuple(as) == [k |-> "seq", items |-> as]

EmptyStr == Scalar(PyStr(<<>>))

\* bool(x) of an atom
AtomTruthy(a) == IF a.t = "str" THEN Len(a.s) > 0 ELSE a.n # 0

\* bool(value)
Truthy(value) ==
  CASE value.k = "none" -> FALSE
    [] value.k = "scalar" -> AtomTruthy(value.items[1])
    [] OTHER -> Len(value.items) > 0

\* repr of a float: shortest digits, at least one after the point
RECURSIVE StripZeros(_)
StripZeros(digits) ==
  IF Len(digits) > 1 /\ digits[Len(digits)] = "0"
  THEN StripZeros(SubSeq(digits, 1, Len(digits) - 1))
  ELSE digits

FloatRepr(m) ==
  LET a == IF m < 0 THEN -m ELSE m
  IN  (IF m < 0 THEN <<"-">> ELSE <<>>)
        \o Decimal(a \div Pow10(FloatDigits)) \o <<".">>
        \o StripZeros(Padded(a % Pow10(FloatDigits), FloatDigits))

\* str(x) of an atom
Str(a) ==
  CASE a.t = "bool" -> IF a.n = 1 THEN <<"T", "r", "u", "e">>
                                  ELSE <<"F", "a", "l", "s", "e">>
    [] a.t = "int" -> Decimal(a.n)
    [] a.t = "float" -> FloatRepr(a.n)
    [] OTHER -> a.s

\* "{:.{}f}".format(x, prec) of a number m / 10^FloatDigits: rounded to the
\* nearest, the sign of a negative number kept even when it rounds to zero.
\* Exact halves are rounded to even; the values of the model hold none.
FixedPoint(m, prec) ==
  LET a == IF m < 0 THEN -m ELSE m
      scaled ==
        IF prec >= FloatDigits THEN a * Pow10(prec - FloatDigits)
        ELSE LET unit == Pow10(FloatDigits - prec)
                 q == a \div unit
                 r == a % unit
             IN  IF 2 * r > unit \/ (2 * r = unit /\ q % 2 = 1)
                 THEN q + 1 ELSE q
  IN  (IF m < 0 THEN <<"-">> ELSE <<>>)
        \o Decimal(scaled \div Pow10(prec))
        \o (IF prec = 0 THEN <<>>
            ELSE <<".">> \o Padded(scaled % Pow10(prec), prec))

\* the number an atom stands for when formatted with "f", in 10^-FloatDigits
AsFloat(a) == IF a.t = "float" THEN a.n ELSE a.n * Pow10(FloatDigits)

(***************************************************************************)
(* Results of a call                                                       *)
(***************************************************************************)
RetNone == [kind |-> "none", text |-> <<>>, err |-> "", msg |-> "", errors |-> <<>>]
RetText(text) ==
  [kind |-> "text", text |-> text, err |-> "", msg |-> "", errors |-> <<>>]
RetBool(b) ==
  [kind |-> IF b THEN "true" ELSE "false", text |-> <<>>, err |-> "", msg |-> "",
   errors |-> <<>>]
Raise(err, msg) ==
  [kind |-> "raise", text |-> <<>>, err |-> err, msg |-> msg, errors |-> <<>>]
\* BFException(sender, msg, errors)
RaiseAll(msg, errors) ==
  [kind |-> "raise", text |-> <<>>, err |-> "BFException", msg |-> msg,
   errors |-> errors]

\* utils.is_iterable: a tuple or list is iterable, a str is not
is_iterable(value) == value.k = "seq"

\* dict.get(key, default) on a descriptor's bpy_other
bpy_other_get(p, key, default) ==
  IF key \in DOMAIN p.bpy_other THEN p.bpy_other[key] ELSE default

(***************************************************************************)
(* Descriptor classes: the class attributes of _BFCommon.  fds_label <<>>  *)
(* and bpy_idname "" stand for None; bf_prop_export is the bpy_idname of   *)
(* the BFExportProp class linked to the descriptor, "" when there is none. *)
(* cls is the specialized class whose check and format the descriptor      *)
(* inherits; no_auto_export and no_auto_import mark the BFNoAutoExportMod   *)
(* and BFNoAutoImportMod mixins; bpy_prop is the bpy.props type of the     *)
(* Blender property; check_info is the message a subclass's check appends  *)
(* to self.infos, <<>> when it appends none.                               *)
(***************************************************************************)
NoOther == [key \in {} |-> 0]

BFPropCls(cls, fds_label, fds_default, bpy_idname, bf_prop_export, bpy_other) ==
  [cls |-> cls, fds_label |-> fds_label, fds_default |-> fds_default,
   bpy_idname |-> bpy_idname, bf_prop_export |-> bf_prop_export,
   bpy_other |-> bpy_other, bpy_prop |-> "", no_auto_export |-> FALSE,
   no_auto_import |-> FALSE, check_info |-> <<>>]

\* _BFCommon.get_value: getattr(self.element, self.bpy_idname or str(), None)
get_value(p, el) ==
  IF p.bpy_idname \in DOMAIN el THEN el[p.bpy_idname] ELSE None

\* self.bf_prop_export.get_value()
export_value(p, el) ==
  IF p.bf_prop_export \in DOMAIN el THEN el[p.bf_prop_export] ELSE None

get_exported_ignoring_default(p, el) ==
  IF p.bf_prop_export # "" THEN Truthy(export_value(p, el)) ELSE TRUE

\* _BFCommon.get_exported
get_exported(p, el) ==
  IF p.fds_default = None
  THEN IF p.bf_prop_export # ""
       THEN Truthy(export_value(p, el))
       ELSE TRUE
  ELSE IF p.bf_prop_export # ""
       THEN Truthy(export_value(p, el)) /\ get_value(p, el) # p.fds_default
       ELSE get_value(p, el) # p.fds_default

(***************************************************************************)
(* check: the characters the string checks look for.  The typographic      *)
(* quotes are named: DQUOTE and BQUOTE are the ASCII double quote and      *)
(* backquote, LDQUO and RDQUO                                              *)
(* the typographic double ones, LSQUO and RSQUO the single ones, ZWNJ the  *)
(* zero-width non-joiner that follows RSQUO in the source's literal.       *)
(***************************************************************************)
MsgDelimiters == "& and / characters not allowed"
MsgSpecial == "Some special characters are not allowed (eg. #)"
MsgQuotes == "Quote characters not allowed"
MsgMatched == "Only use matched single quotes as 'string' delimiters"

Ok == RetNone

\* _BFCommon.check
BaseCheck(p, el) == Ok

\* the text of a string property's value
StrOf(value) == value.items[1].s

StringCheck_no_hash(p, el) ==
  LET value == StrOf(get_value(p, el))
  IN  IF In("&", value) \/ In("/", value)
      THEN Raise("BFException", MsgDelimiters)
      ELSE IF In("'", value) \/ In("DQUOTE", value) \/ In("BQUOTE", value)
              \/ In("LDQUO", value) \/ In("RDQUO", value) \/ In("LSQUO", value)
              \/ InSub(<<"RSQUO", "ZWNJ">>, value)
      THEN Raise("BFException", MsgQuotes)
      ELSE Ok

\* BFStringProp.check
StringCheck(p, el) ==
  LET value == StrOf(get_value(p, el))
  IN  IF In("&", value) \/ In("/", value)
      THEN Raise("BFException", MsgDelimiters)
      ELSE IF In("#", value)
      THEN Raise("BFException", MsgSpecial)
      ELSE IF In("'", value) \/ In("DQUOTE", value) \/ In("BQUOTE", value)
              \/ In("LDQUO", value) \/ In("RDQUO", value) \/ In("LSQUO", value)
              \/ InSub(<<"RSQUO", "ZWNJ">>, value)
      THEN Raise("BFException", MsgQuotes)
      ELSE Ok

\* BFFreeProp.check
FreeCheck(p, el) ==
  LET value == StrOf(get_value(p, el))
  IN  IF In("&", value) \/ In("/", value)
      THEN Raise("BFException", MsgDelimiters)
      ELSE IF In("#", value)
      THEN Raise("BFException", MsgSpecial)
      ELSE IF In("BQUOTE", value) \/ In("LSQUO", value)
              \/ InSub(<<"RSQUO", "ZWNJ">>, value)
              \/ In("DQUOTE", value) \/ In("RDQUO", value)
              \/ Count("'", value) % 2 # 0
      THEN Raise("BFException", MsgMatched)
      ELSE Ok

\* self.check(context), by the class of the descriptor
check(p, el) ==
  CASE p.cls = "BFStringProp" -> StringCheck(p, el)
    [] p.cls = "BFFreeProp" -> FreeCheck(p, el)
    [] OTHER -> BaseCheck(p, el)

(***************************************************************************)
(* format                                                                  *)
(***************************************************************************)
JoinComma(texts) == Join(<<",">>, texts)

DotTrue == <<".", "T", "R", "U", "E", ".">>
DotFalse == <<".", "F", "A", "L", "S", "E", ".">>

\* "=".join((self.fds_label, value)) when fds_label is set, else str(value)
Labelled(p, text) ==
  IF p.fds_label # <<>> THEN p.fds_label \o <<"=">> \o text ELSE text

Format_bool_as_int(p, value) ==
  IF value = None THEN RetNone
  ELSE
    LET values == value.items
        n == Len(values)
    IN  IF n = 0 THEN Raise("IndexError", "tuple index out of range")
        ELSE IF values[1].t \in {"bool", "int"}
        THEN RetText(Labelled(p, JoinComma([i \in 1..n |-> Decimal(values[i].n)])))
        ELSE IF values[1].t = "float"
        THEN RetText(Labelled(p, JoinComma(
               [i \in 1..n |->
                 FixedPoint(AsFloat(values[i]), bpy_other_get(p, "precision", 3))])))
        ELSE IF values[1].t = "str" /\ Truthy(value)
        THEN RetText(Labelled(p, JoinComma(
               [i \in 1..n |-> <<"'">> \o Str(values[i]) \o <<"'">>])))
        ELSE RetNone

\* BFProp.format
Format(p, value) ==
  IF value = None THEN RetNone
  ELSE
    LET values == value.items  \* a scalar is put in a one-element tuple
        n == Len(values)
    IN  IF n = 0 THEN Raise("IndexError", "tuple index out of range")
        ELSE IF values[1].t = "bool"
        THEN RetText(Labelled(p, JoinComma(
               [i \in 1..n |-> IF AtomTruthy(values[i]) THEN DotTrue ELSE DotFalse])))
        ELSE IF values[1].t = "int"
        THEN RetText(Labelled(p, JoinComma([i \in 1..n |-> Str(values[i])])))
        ELSE IF values[1].t = "float"
        THEN IF \E i \in 1..n : values[i].t = "str"
             THEN Raise("ValueError", "Unknown format code 'f'")
             ELSE RetText(Labelled(p, JoinComma(
                    [i \in 1..n |->
                      FixedPoint(AsFloat(values[i]),
                                 bpy_other_get(p, "precision", 3))])))
        ELSE IF values[1].t = "str" /\ Truthy(value)
        THEN RetText(Labelled(p, JoinComma(
               [i \in 1..n |-> <<"'">> \o Str(values[i]) \o <<"'">>])))
        ELSE RetNone

\* BFStringProp.format; the value of a string property is one str
StringFormat(p, value) ==
  IF Truthy(value)
  THEN IF p.fds_label # <<>>
       THEN RetText(p.fds_label \o <<"=", "'">> \o Str(value.items[1]) \o <<"'">>)
       ELSE RetText(Str(value.items[1]))
  ELSE RetNone

\* self.format(context, value), by the class of the descriptor
format(p, value) ==
  IF p.cls \in {"BFStringProp", "BFFreeProp"}
  THEN StringFormat(p, value)
  ELSE Format(p, value)

(***************************************************************************)
(* to_fds of a property                                                    *)
(***************************************************************************)
\* BFNoAutoExportMod.to_fds
NoAutoExportToFds(p, el) ==
  IF ~get_exported(p, el) THEN RetNone
  ELSE check(p, el)  \* raises, or falls off the end and returns None

PropToFds_no_export_test(p, el) ==
  LET checked == check(p, el)
  IN  IF checked.kind = "raise" THEN checked
      ELSE format(p, get_value(p, el))

\* BFProp.to_fds
PropToFds(p, el) ==
  IF ~get_exported(p, el) THEN RetNone
  ELSE LET checked == check(p, el)
       IN  IF checked.kind = "raise" THEN checked
           ELSE format(p, get_value(p, el))

\* bf_prop.to_fds(context), by the mixins of the descriptor
to_fds(p, el) ==
  IF p.no_auto_export THEN NoAutoExportToFds(p, el) ELSE PropToFds(p, el)

(***************************************************************************)
(* Namelist classes.  A parameter handed to BFNamelist.format is a str     *)
(* ([k |-> "str"]) or a multiparam, a list of alternative bodies           *)
(* ([k |-> "seq"]).  An instance holds self.infos and the infos of its     *)
(* bf_props instances.                                                     *)
(***************************************************************************)
BFNamelistCls(name, fds_label, bf_prop_export, bf_props, bpy_type) ==
  [name |-> name, fds_label |-> fds_label, fds_default |-> None,
   bpy_idname |-> "", bf_prop_export |-> bf_prop_export, bf_props |-> bf_props,
   bpy_type |-> bpy_type, fds_separator |-> <<" ">>]

Param(text) == [k |-> "str", text |-> text, bodies |-> <<>>]
Multiparam(bodies) == [k |-> "seq", text |-> <<>>, bodies |-> bodies]

\* _BFCommon.__init__: self.infos = list(), for the namelist and its bf_props
NewInstance(nl) ==
  [self |-> <<>>, props |-> [i \in 1..Len(nl.bf_props) |-> <<>>]]

\* check of a subclass that appends an info message to self.infos
CheckInfos(p, infos) ==
  IF p.check_info # <<>> THEN Append(infos, p.check_info) ELSE infos

\* "".join(("! {}\n".format(info) for info in infos))
InfoLines(infos) ==
  Concat([i \in 1..Len(infos) |-> <<"!", " ">> \o infos[i] \o <<"\n">>])

RemoveAt(seq, i) == SubSeq(seq, 1, i - 1) \o SubSeq(seq, i + 1, Len(seq))

\* index of the first multiparam of params, 0 when there is none
FirstMultiparam(params) ==
  IF \E i \in 1..Len(params) : is_iterable(params[i])
  THEN CHOOSE i \in 1..Len(params) :
         /\ is_iterable(params[i])
         /\ \A j \in 1..(i - 1) : ~is_iterable(params[j])
  ELSE 0

IsSingleID(param) == param.k = "str" /\ Prefix(param.text, 3) = <<"I", "D", "=">>

RemoveSingleID_keep(params) == params

\* BFNamelist.format: remove the first param that starts with "ID="
RemoveSingleID(params) ==
  IF \E i \in 1..Len(params) : IsSingleID(params[i])
  THEN RemoveAt(params, CHOOSE i \in 1..Len(params) :
                          /\ IsSingleID(params[i])
                          /\ \A j \in 1..(i - 1) : ~IsSingleID(params[j]))
  ELSE params

Closure == <<"/", "\n">>

JoinParams_no_separator(nl, params) ==
  Concat([i \in 1..Len(params) |-> params[i].text]) \o Closure

\* BFNamelist.format: params.append("/\n"); self.fds_separator.join(params)
JoinParams(nl, params) ==
  Join(nl.fds_separator, [i \in 1..Len(params) |-> params[i].text] \o <<Closure>>)

\* BFNamelist.format
NamelistFormat(nl, infos, params0) ==
  IF nl.fds_label = <<>> /\ Len(params0) = 0
  THEN Raise("IndexError", "pop from empty list")
  ELSE IF nl.fds_label = <<>> /\ is_iterable(params0[1])
  THEN Raise("TypeError", "sequence item: expected str instance")
  ELSE
    LET fds_label ==
          <<"&">> \o (IF nl.fds_label # <<>> THEN nl.fds_label ELSE params0[1].text)
                  \o <<" ">>
        params1 == IF nl.fds_label # <<>> THEN params0 ELSE Tail(params0)
        info == InfoLines(infos)
        m == FirstMultiparam(params1)
        multiparams == IF m = 0 THEN <<>> ELSE params1[m].bodies
        params2 == IF m = 0 THEN params1 ELSE RemoveSingleID(RemoveAt(params1, m))
    IN  IF \E i \in 1..Len(params2) : is_iterable(params2[i])
        THEN Raise("TypeError", "sequence item: expected str instance")
        ELSE
          LET param == JoinParams(nl, params2)
              body ==
                IF Len(multiparams) > 0
                THEN Concat([i \in 1..Len(multiparams) |->
                       fds_label \o multiparams[i] \o nl.fds_separator \o param])
                ELSE fds_label \o param
          IN  RetText(info \o body)

\* the state of the loop of BFNamelist.to_fds over self.bf_props
NoAbort == RetNone
StartExport(inst) ==
  [params |-> <<>>, errors |-> <<>>, abort |-> NoAbort, inst |-> inst]

ChildError(p, r) == [sender |-> p.bpy_idname, msg |-> r.msg]

OnChildError_reraise(acc, p, r) == [acc EXCEPT !.abort = r]

\* BFNamelist.to_fds: except BFException as err: errors.append(err)
OnChildError(acc, p, r) ==
  [acc EXCEPT !.errors = Append(@, ChildError(p, r))]

\* BFNamelist.to_fds: the loop over self.bf_props, from child i on.  An
\* exception that is no BFException leaves the loop and the method.
RECURSIVE ExportProps(_, _, _, _)
ExportProps(nl, el, i, acc) ==
  IF i > Len(nl.bf_props) \/ acc.abort.kind = "raise" THEN acc
  ELSE
    LET p == nl.bf_props[i]
        r == to_fds(p, el)
        child_infos ==
          IF get_exported(p, el)
          THEN CheckInfos(p, acc.inst.props[i]) ELSE acc.inst.props[i]
        checked == [acc EXCEPT !.inst.props[i] = child_infos]
    IN  ExportProps(nl, el, i + 1,
          IF r.kind = "raise" /\ r.err = "BFException"
          THEN OnChildError(checked, p, r)
          ELSE IF r.kind = "raise"
          THEN [checked EXCEPT !.abort = r]
          ELSE [checked EXCEPT
                  !.params = IF r.kind = "text" /\ Len(r.text) > 0
                             THEN Append(@, Param(r.text)) ELSE @,
                  !.inst.self = @ \o child_infos])

MsgErrors == "Following errors reported"

NamelistToFds_all_bf_props(nl, el, inst) ==
  IF ~get_exported(nl, el) THEN [ret |-> RetNone, inst |-> inst]
  ELSE
    LET acc == ExportProps(nl, el, 1, StartExport(inst))
        flag == IF nl.bf_prop_export # ""
                THEN <<Param(IF Truthy(export_value(nl, el))
                             THEN DotTrue ELSE DotFalse)>>
                ELSE <<>>
    IN  [ret |-> IF acc.abort.kind = "raise" THEN acc.abort
                 ELSE IF Len(acc.errors) > 0 THEN RaiseAll(MsgErrors, acc.errors)
                 ELSE NamelistFormat(nl, acc.inst.self, flag \o acc.params),
         inst |-> acc.inst]

\* BFNamelist.to_fds on an instance: what it returns or raises, and the
\* instance afterwards
NamelistToFds(nl, el, inst) ==
  IF ~get_exported(nl, el) THEN [ret |-> RetNone, inst |-> inst]
  ELSE
    LET acc == ExportProps(nl, el, 1, StartExport(inst))
    IN  [ret |-> IF acc.abort.kind = "raise" THEN acc.abort
                 ELSE IF Len(acc.errors) > 0 THEN RaiseAll(MsgErrors, acc.errors)
                 ELSE NamelistFormat(nl, acc.inst.self, acc.params),
         inst |-> acc.inst]

(***************************************************************************)
(* Import.  A token of a namelist is [label, value, fds_value]: the label  *)
(* of the parameter, its value as a Python value and its original text.    *)
(* The tokenizer (fds.to_py.tokenize), the Blender property types          *)
(* (bpy.props), ClsList.get_by_fds_label and BFException.free_texts are    *)
(* not part of types.py; they are modelled from their interface.           *)
(***************************************************************************)
FirstIndex(c, text) ==
  IF In(c, text)
  THEN CHOOSE i \in 1..Len(text) : text[i] = c /\ \A j \in 1..(i - 1) : text[j] # c
  ELSE 0

\* whether position i of text is inside a quoted string
Quoted(text, i) ==
  Cardinality({j \in 1..(i - 1) : text[j] = "'"}) % 2 = 1

\* the positions of the sep characters of text that are outside quotes
SepPositions(text, sep) ==
  {i \in 1..Len(text) : text[i] = sep /\ ~Quoted(text, i)}

\* the pieces of text between the sep characters that are outside quotes
SplitOutside(text, sep) ==
  LET at == SepPositions(text, sep)
      nth(k) == CHOOSE i \in at : Cardinality({j \in at : j < i}) = k - 1
      n == Cardinality(at) + 1
  IN  [k \in 1..n |->
         SubSeq(text, IF k = 1 THEN 1 ELSE nth(k - 1) + 1,
                      IF k = n THEN Len(text) ELSE nth(k) - 1)]

NonEmpty(texts) == SelectSeq(texts, LAMBDA x : x # <<>>)

\* the text after its leading comment lines
RECURSIVE DropComments(_)
DropComments(text) ==
  IF text # <<>> /\ Head(text) = "!"
  THEN LET eol == FirstIndex("\n", text)
       IN  IF eol = 0 THEN <<>> ELSE DropComments(SubSeq(text, eol + 1, Len(text)))
  ELSE text

IsDigit(c) == \E d \in 0..9 : DigitChar(d) = c
DigitValue(c) == CHOOSE d \in 0..9 : DigitChar(d) = c

RECURSIVE ParseNat(_)
ParseNat(digits) ==
  IF digits = <<>> THEN 0
  ELSE 10 * ParseNat(SubSeq(digits, 1, Len(digits) - 1))
         + DigitValue(digits[Len(digits)])

IsQuoted(item) == Len(item) >= 2 /\ item[1] = "'" /\ item[Len(item)] = "'"

Unsigned(item) == IF item # <<>> /\ Head(item) = "-" THEN Tail(item) ELSE item

\* an FDS literal: 'text', .TRUE., .FALSE., an integer or a decimal number
IsLiteral(item) ==
  \/ IsQuoted(item)
  \/ item \in {DotTrue, DotFalse}
  \/ /\ \E i \in 1..Len(Unsigned(item)) : IsDigit(Unsigned(item)[i])
     /\ \A i \in 1..Len(Unsigned(item)) : IsDigit(Unsigned(item)[i]) \/ Unsigned(item)[i] = "."
     /\ Count(".", item) <= 1

\* the Python value of an FDS literal
ParseAtom(item) ==
  IF IsQuoted(item) THEN PyStr(SubSeq(item, 2, Len(item) - 1))
  ELSE IF item = DotTrue THEN PyBool(TRUE)
  ELSE IF item = DotFalse THEN PyBool(FALSE)
  ELSE
    LET sign == IF Head(item) = "-" THEN -1 ELSE 1
        body == Unsigned(item)
        dot == FirstIndex(".", body)
    IN  IF dot = 0 THEN PyInt(sign * ParseNat(body))
        ELSE LET frac == Prefix(SubSeq(body, dot + 1, Len(body)), FloatDigits)
             IN  PyFloat(sign * (ParseNat(SubSeq(body, 1, dot - 1)) * Pow10(FloatDigits)
                                   + ParseNat(frac) * Pow10(FloatDigits - Len(frac))))

\* the Python value of the text of a parameter: one literal, or a tuple of
\* comma-separated literals
ParseValue(text) ==
  LET items == SplitOutside(text, ",")
  IN  IF Len(items) = 1 THEN Scalar(ParseAtom(items[1]))
      ELSE Tuple([i \in 1..Len(items) |-> ParseAtom(items[i])])

\* the words of a record "&LABEL P1=v1 P2=v2 /": the label, then the params
RecordWords(text) ==
  LET t == DropComments(text)
  IN  IF t = <<>> \/ Head(t) # "&" THEN <<>>
      ELSE LET parts == SplitOutside(Tail(t), "/")
           IN  IF Len(parts) < 2 THEN <<>>
               ELSE NonEmpty(SplitOutside(parts[1], " "))

IsParamWord(w) ==
  /\ FirstIndex("=", w) > 1
  /\ LET items == SplitOutside(SubSeq(w, FirstIndex("=", w) + 1, Len(w)), ",")
     IN  \A i \in 1..Len(items) : IsLiteral(items[i])

\* whether the tokenizer parses the record
Parseable(text) ==
  LET words == RecordWords(text)
  IN  /\ words # <<>>
      /\ \A i \in 2..Len(words) : IsParamWord(words[i])

ParamToken(w) ==
  LET eq == FirstIndex("=", w)
      fds_value == SubSeq(w, eq + 1, Len(w))
  IN  [label |-> SubSeq(w, 1, eq - 1), value |-> ParseValue(fds_value),
       fds_value |-> fds_value]

\* fds.to_py.tokenize on one record: (fds_label, fds_params, fds_original)
Tokenize(text) ==
  LET words == RecordWords(text)
  IN  [label |-> words[1],
       params |-> [i \in 1..(Len(words) - 1) |-> ParamToken(words[i + 1])],
       original |-> text]

\* the value of a vector property nobody has set
VectorZero == Tuple(<<PyInt(0), PyInt(0), PyInt(0)>>)

\* what setattr on a Blender property of type bpy_prop accepts
Accepts(bpy_prop, value) ==
  LET scalar_of(types) == value.k = "scalar" /\ value.items[1].t \in types
  IN  CASE bpy_prop = "StringProperty" -> scalar_of({"str"})
        [] bpy_prop = "BoolProperty" ->
             scalar_of({"bool", "int"}) /\ value.items[1].n \in {0, 1}
        [] bpy_prop = "IntProperty" -> scalar_of({"bool", "int"})
        [] bpy_prop = "FloatProperty" -> scalar_of({"bool", "int", "float"})
        [] bpy_prop = "IntVectorProperty" ->
             /\ value.k = "seq"
             /\ Len(value.items) = Len(VectorZero.items)
             /\ \A i \in 1..Len(value.items) : value.items[i].t \in {"bool", "int"}
        [] OTHER -> FALSE

\* what the Blender property holds after an accepted setattr
Stored(bpy_prop, value) ==
  CASE bpy_prop = "BoolProperty" -> Scalar(PyBool(value.items[1].n # 0))
    [] bpy_prop = "IntProperty" -> Scalar(PyInt(value.items[1].n))
    [] bpy_prop = "FloatProperty" -> Scalar(PyFloat(AsFloat(value.items[1])))
    [] bpy_prop = "IntVectorProperty" ->
         Tuple([i \in 1..Len(value.items) |-> PyInt(value.items[i].n)])
    [] OTHER -> value

\* the result of a method that changes the element: the element afterwards
\* and what the method returned or raised
Outcome(el, r) == [el |-> el, ret |-> r]

\* _BFCommon.set_value
set_value(p, el, value) ==
  IF p.bpy_idname = "" THEN Outcome(el, RetNone)
  ELSE IF p.bpy_idname \notin DOMAIN el
  THEN Outcome(el, Raise("AttributeError", "no such attribute"))
  ELSE IF ~Accepts(p.bpy_prop, value)
  THEN Outcome(el, Raise("TypeError", "value of the wrong type"))
  ELSE Outcome([el EXCEPT ![p.bpy_idname] = Stored(p.bpy_prop, value)], RetNone)

\* the BFExportProp class of bpy_idname idname
ExportProp(idname) ==
  [BFPropCls("BFExportProp", <<>>, None, idname, "",
             [default |-> Scalar(PyBool(FALSE))])
     EXCEPT !.bpy_prop = "BoolProperty"]

\* _BFCommon.set_exported
set_exported(p, el, value) ==
  IF p.bf_prop_export # ""
  THEN set_value(ExportProp(p.bf_prop_export), el, value)
  ELSE Outcome(el, RetNone)

MsgImport == "Error importing value"

\* str(value) of a Python value
ValueStr(value) ==
  CASE value.k = "none" -> <<"N", "o", "n", "e">>
    [] value.k = "scalar" -> Str(value.items[1])
    [] OTHER -> <<"(">> \o Join(<<",", " ">>, [i \in 1..Len(value.items) |->
                                                Str(value.items[i])]) \o <<")">>

\* "Error importing '{}' value".format(value)
ImportMessage(value) ==
  <<"E", "r", "r", "o", "r", " ", "i", "m", "p", "o", "r", "t", "i", "n", "g", " ", "'">> \o ValueStr(value) \o <<"'", " ", "v", "a", "l", "u", "e">>

\* BFException(self, "Error importing '{}' value".format(value))
ImportError(p, value) ==
  [sender |-> p.bpy_idname]
    @@ [Raise("BFException", MsgImport) EXCEPT !.text = ImportMessage(value)]

PropFromFds_no_set_exported(p, el, value) ==
  LET s == set_value(p, el, value)
  IN  IF s.ret.kind = "raise"
      THEN Outcome(el, ImportError(p, value))
      ELSE s

PropFromFds_export_anyway(p, el, value) ==
  LET s == set_value(p, el, value)
  IN  IF s.ret.kind = "raise"
      THEN Outcome(set_exported(p, el, Scalar(PyBool(TRUE))).el, ImportError(p, value))
      ELSE set_exported(p, s.el, Scalar(PyBool(TRUE)))

\* BFProp.from_fds
PropFromFds(p, el, value) ==
  LET s == set_value(p, el, value)
  IN  IF s.ret.kind = "raise"
      THEN Outcome(el, ImportError(p, value))
      ELSE set_exported(p, s.el, Scalar(PyBool(TRUE)))

\* BFNoAutoImportMod.from_fds(self, context), called with a value
NoAutoImportFromFds(p, el, value) ==
  Outcome(el, Raise("TypeError", "from_fds() takes 2 positional arguments"))

\* bf_prop.from_fds(context, value), by the mixins of the descriptor
from_fds(p, el, value) ==
  IF p.no_auto_import THEN NoAutoImportFromFds(p, el, value)
  ELSE PropFromFds(p, el, value)

\* subscribe: all_bf_props of a descriptor class, its bf_prop_export first,
\* then each of its bf_props followed by that one's all_bf_props
AllBfProps(c) ==
  (IF c.bf_prop_export # "" THEN <<ExportProp(c.bf_prop_export)>> ELSE <<>>)
    \o (IF "bf_props" \in DOMAIN c
        THEN Concat([i \in 1..Len(c.bf_props) |->
               <<c.bf_props[i]>>
                 \o (IF c.bf_props[i].bf_prop_export # ""
                     THEN <<ExportProp(c.bf_props[i].bf_prop_export)>> ELSE <<>>)])
        ELSE <<>>)

\* ClsList.get_by_fds_label: the index of the first class of that fds_label,
\* 0 when there is none
get_by_fds_label(classes, fds_label) ==
  IF \E i \in 1..Len(classes) : classes[i].fds_label = fds_label
  THEN CHOOSE i \in 1..Len(classes) :
         /\ classes[i].fds_label = fds_label
         /\ \A j \in 1..(i - 1) : classes[j].fds_label # fds_label
  ELSE 0

\* _BFCommon.bf_prop_free: the index of the first BFFreeProp of bf_props, 0
\* when there is none
bf_prop_free(nl) ==
  IF \E i \in 1..Len(nl.bf_props) : nl.bf_props[i].cls = "BFFreeProp"
  THEN CHOOSE i \in 1..Len(nl.bf_props) :
         /\ nl.bf_props[i].cls = "BFFreeProp"
         /\ \A j \in 1..(i - 1) : nl.bf_props[j].cls # "BFFreeProp"
  ELSE 0

\* register: bpy_other["default"], fds_default put there when it is not None
\* and no default is declared
RegisteredDefault(p) ==
  IF "default" \in DOMAIN p.bpy_other THEN p.bpy_other["default"] ELSE p.fds_default

\* _BFCommon.set_default_value
set_default_value(p, el) ==
  IF RegisteredDefault(p) # None
  THEN set_value(p, el, RegisteredDefault(p)).el
  ELSE el

RECURSIVE SetDefaultValues(_, _, _)
SetDefaultValues(props, i, el) ==
  IF i > Len(props) THEN el
  ELSE SetDefaultValues(props, i + 1, set_default_value(props[i], el))

\* _BFCommon.set_default of a namelist: the namelist has no Blender property
\* of its own
set_default(nl, el) == SetDefaultValues(AllBfProps(nl), 1, el)

\* the value of a Blender property nobody has set: its registered default,
\* or that of its type
FreshValue(p) ==
  IF RegisteredDefault(p) # None THEN RegisteredDefault(p)
  ELSE CASE p.bpy_prop = "BoolProperty" -> Scalar(PyBool(FALSE))
         [] p.bpy_prop = "IntProperty" -> Scalar(PyInt(0))
         [] p.bpy_prop = "FloatProperty" -> Scalar(PyFloat(0))
         [] p.bpy_prop = "IntVectorProperty" -> VectorZero
         [] OTHER -> EmptyStr

\* a new element of the kind of nl
FreshElement(nl) ==
  LET props == AllBfProps(nl)
  IN  [a \in {props[i].bpy_idname : i \in 1..Len(props)} \ {""} |->
         FreshValue(props[CHOOSE i \in 1..Len(props) : props[i].bpy_idname = a])]

T_SURF_ID == <<"S", "U", "R", "F", "_", "I", "D">>

SortedParams_input_order(tokens) == tokens

\* sorted(tokens.keys(), key=lambda k: k == "SURF_ID"): stable, SURF_ID last
SortedParams(tokens) ==
  SelectSeq(tokens, LAMBDA x : x.label # T_SURF_ID)
    \o SelectSeq(tokens, LAMBDA x : x.label = T_SURF_ID)

\* sorted(tokens, key=lambda k: k[0] != "SURF_ID"): stable, SURF_ID first
SortedTokens(tokens) ==
  SelectSeq(tokens, LAMBDA x : x.label = T_SURF_ID)
    \o SelectSeq(tokens, LAMBDA x : x.label # T_SURF_ID)

StartImport(el) == [el |-> el, free_texts |-> <<>>, errors |-> <<>>]

\* BFNamelist.from_fds: free_texts.append(fds_label + "=" + fds_value)
OnUnmanaged(acc, token) ==
  [acc EXCEPT !.free_texts = Append(@, token.label \o <<"=">> \o token.fds_value)]

\* BFNamelist.from_fds: the loop over the tokens, from token i on
RECURSIVE ImportTokens(_, _, _, _)
ImportTokens(nl, tokens, i, acc) ==
  IF i > Len(tokens) THEN acc
  ELSE
    LET token == tokens[i]
        k == get_by_fds_label(AllBfProps(nl), token.label)
    IN  IF k = 0
        THEN ImportTokens(nl, tokens, i + 1, OnUnmanaged(acc, token))
        ELSE LET r == from_fds(AllBfProps(nl)[k], acc.el, token.value)
             IN  IF r.ret.kind = "raise"
                 THEN ImportTokens(nl, tokens, i + 1,
                        [acc EXCEPT !.el = r.el, !.errors = Append(@, r.ret)])
                 ELSE ImportTokens(nl, tokens, i + 1, [acc EXCEPT !.el = r.el])

SaveFreeTexts_unless_errors(nl, acc) ==
  IF acc.free_texts # <<>> /\ bf_prop_free(nl) # 0 /\ acc.errors = <<>>
  THEN set_value(nl.bf_props[bf_prop_free(nl)], acc.el,
                 Scalar(PyStr(Join(<<" ">>, acc.free_texts)))).el
  ELSE acc.el

\* BFNamelist.from_fds: save of the unmanaged tokens in self.bf_prop_free
SaveFreeTexts(nl, acc) ==
  IF acc.free_texts # <<>> /\ bf_prop_free(nl) # 0
  THEN set_value(nl.bf_props[bf_prop_free(nl)], acc.el,
                 Scalar(PyStr(Join(<<" ">>, acc.free_texts)))).el
  ELSE acc.el

NamelistFromFds_rollback(nl, el, tokens) ==
  IF tokens = <<>> THEN Outcome(el, RetNone)
  ELSE
    LET el0 == IF nl.bpy_type = "Scene" THEN set_default(nl, el) ELSE el
        ordered == SortedParams(tokens)
        acc == ImportTokens(nl, ordered, 1, StartImport(el0))
        saved == SaveFreeTexts(nl, acc)
    IN  IF acc.errors # <<>>
        THEN Outcome(el, RaiseAll(MsgErrors, acc.errors))
        ELSE Outcome(set_exported(nl, saved, Scalar(PyBool(TRUE))).el, RetNone)

\* BFNamelist.from_fds
NamelistFromFds(nl, el, tokens) ==
  IF tokens = <<>> THEN Outcome(el, RetNone)
  ELSE
    LET el0 == IF nl.bpy_type = "Scene" THEN set_default(nl, el) ELSE el
        ordered == SortedParams(tokens)
        acc == ImportTokens(nl, ordered, 1, StartImport(el0))
        saved == SaveFreeTexts(nl, acc)
    IN  IF acc.errors # <<>>
        THEN Outcome(saved, RaiseAll(MsgErrors, acc.errors))
        ELSE Outcome(set_exported(nl, saved, Scalar(PyBool(TRUE))).el, RetNone)

\* BFException.free_texts: the messages of the nested errors, as FDS comments
free_texts(err) ==
  [i \in 1..Len(err.errors) |-> <<"!", " ">> \o err.errors[i].text]

NoImport ==
  [done |-> FALSE, source |-> <<>>, element |-> <<>>, ret |-> RetNone,
   tokens |-> <<>>]

NoScene ==
  [self |-> <<>>, objects |-> <<>>, texts |-> <<>>, ret |-> RetNone,
   document |-> <<>>, failed |-> <<>>, calls |-> 0]

(***************************************************************************)
(* Property-level runs: one descriptor class, one element, one call.       *)
(***************************************************************************)
T_ID == <<"I", "D">>
T_FYI == <<"F", "Y", "I">>
T_COLOR == <<"C", "O", "L", "O", "R">>
T_RAMP == <<"R", "A", "M", "P">>
T_THICKNESS == <<"T", "H", "I", "C", "K", "N", "E", "S", "S">>
T_XB == <<"X", "B">>
T_example == <<"e", "x", "a", "m", "p", "l", "e">>

\* floats of the runs: 1.5, -0.0004, 1.2342, 2.7187
F_1_5 == PyFloat(15 * Pow10(FloatDigits - 1))
F_m0_0004 == PyFloat(-4 * Pow10(FloatDigits - 4))
F_1_2342 == PyFloat(12342 * Pow10(FloatDigits - 4))
F_2_7187 == PyFloat(27187 * Pow10(FloatDigits - 4))

Bools == {PyBool(TRUE), PyBool(FALSE)}
Ints == {PyInt(0), PyInt(3), PyInt(4), PyInt(5), PyInt(-12)}
Floats == {F_1_5, F_m0_0004, F_1_2342, F_2_7187}
Strs == {PyStr(<<>>), PyStr(<<"x">>), PyStr(T_example)}
AtomTypes == {Bools, Ints, Floats, Strs}

\* None, every scalar, every tuple of one type up to MaxSeqLen (the empty one
\* included), and the tuple (3, 4, 5)
FormatValues ==
  {None}
    \cup {Scalar(a) : a \in UNION AtomTypes}
    \cup UNION {UNION {{Tuple(f) : f \in [1..n -> T]} : n \in 0..MaxSeqLen}
                  : T \in AtomTypes}
    \cup {Tuple(<<PyInt(3), PyInt(4), PyInt(5)>>)}

CheckAlphabet ==
  {"a", "&", "/", "#", "'", "DQUOTE", "BQUOTE", "LDQUO", "RSQUO", "ZWNJ"}

StringValues ==
  {Scalar(PyStr(f)) : f \in UNION {[1..n -> CheckAlphabet] : n \in 0..MaxStrLen}}
    \cup {Scalar(PyStr(T_example))}

\* string-valued descriptor classes
StringPropClasses ==
  { BFPropCls("BFStringProp", T_ID, EmptyStr, "name", "", NoOther),
    BFPropCls("BFStringProp", T_FYI, EmptyStr, "bf_fyi", "bf_fyi_export", NoOther),
    BFPropCls("BFStringProp", T_RAMP, Scalar(PyStr(<<"a">>)), "bf_ramp", "", NoOther),
    BFPropCls("BFFreeProp", <<>>, EmptyStr, "bf_free", "", NoOther) }

\* descriptor classes that inherit BFProp.check and BFProp.format
PlainPropClasses ==
  { BFPropCls("BFProp", T_COLOR, None, "bf_color", "", NoOther),
    BFPropCls("BFProp", T_ID, None, "bf_id", "bf_id_export", NoOther),
    BFPropCls("BFProp", <<>>, None, "bf_value", "bf_value_export", NoOther),
    BFPropCls("BFProp", T_THICKNESS, Scalar(F_1_5), "bf_thickness",
              "bf_thickness_export", [precision |-> 1]),
    BFPropCls("BFProp", <<>>, None, "", "", NoOther),
    BFPropCls("BFExportProp", <<>>, None, "bf_export", "",
              [default |-> Scalar(PyBool(FALSE))]),
    [BFPropCls("BFProp", T_XB, None, "bf_xb", "", NoOther)
       EXCEPT !.no_auto_export = TRUE] }

PropClasses == StringPropClasses \cup PlainPropClasses

NoNamelist == BFNamelistCls("", <<>>, "", <<>>, "")

\* an element holding value v for the descriptor and f for its export flag
ElementOf(p, v, f) ==
  [a \in {p.bpy_idname, p.bf_prop_export} \ {""} |->
     IF a = p.bpy_idname THEN v ELSE f]

PropElements(p) ==
  {ElementOf(p, v, Scalar(f)) :
     v \in (IF p \in StringPropClasses THEN StringValues ELSE FormatValues),
     f \in Bools}

InitProp ==
  /\ pc = "ready"
  /\ op = ""
  /\ bf_prop \in PropClasses
  /\ element \in PropElements(bf_prop)
  /\ ret = RetNone
  /\ bf_namelist = NoNamelist
  /\ instance = NewInstance(NoNamelist)
  /\ inst_id = 0
  /\ exports = <<>>
  /\ format_params = <<>>
  /\ mutated = FALSE
  /\ imported = NoImport
  /\ scene = NoScene

CallGetExported ==
  /\ pc = "ready"
  /\ ret' = RetBool(get_exported(bf_prop, element))
  /\ op' = "get_exported"
  /\ pc' = "done"
  /\ UNCHANGED <<bf_prop, element, nlVars>>

CallCheck ==
  /\ pc = "ready"
  /\ ret' = check(bf_prop, element)
  /\ op' = "check"
  /\ pc' = "done"
  /\ UNCHANGED <<bf_prop, element, nlVars>>

CallFormat ==
  /\ pc = "ready"
  /\ ret' = format(bf_prop, get_value(bf_prop, element))
  /\ op' = "format"
  /\ pc' = "done"
  /\ UNCHANGED <<bf_prop, element, nlVars>>

CallToFds ==
  /\ pc = "ready"
  /\ ret' = to_fds(bf_prop, element)
  /\ op' = "to_fds"
  /\ pc' = "done"
  /\ UNCHANGED <<bf_prop, element, nlVars>>

NextProp == CallGetExported \/ CallCheck \/ CallFormat \/ CallToFds

SpecProp == InitProp /\ [][NextProp]_vars

(***************************************************************************)
(* Namelist-level runs.  The descriptor classes of the runs stand for the  *)
(* concrete classes the plugin declares from the classes above.            *)
(***************************************************************************)
T_OBST == <<"O", "B", "S", "T">>
T_DEVC == <<"D", "E", "V", "C">>
T_HEAD == <<"H", "E", "A", "D">>
T_SURF == <<"S", "U", "R", "F">>
T_CHID == <<"C", "H", "I", "D">>
T_TITLE == <<"T", "I", "T", "L", "E">>
T_THICKEN == <<"T", "H", "I", "C", "K", "E", "N">>
T_N == <<"N">>
T_info == <<"N", " ", "s", "e", "t">>

P_ID ==
  [BFPropCls("BFStringProp", T_ID, EmptyStr, "name", "", NoOther)
     EXCEPT !.bpy_prop = "StringProperty"]
P_FYI ==
  [BFPropCls("BFStringProp", T_FYI, EmptyStr, "bf_fyi", "", NoOther)
     EXCEPT !.bpy_prop = "StringProperty"]
P_FREE ==
  [BFPropCls("BFFreeProp", <<>>, EmptyStr, "bf_free", "", NoOther)
     EXCEPT !.bpy_prop = "StringProperty"]
P_THICKNESS ==
  [BFPropCls("BFProp", T_THICKNESS, Scalar(PyFloat(0)), "bf_thickness",
             "bf_thickness_export", NoOther)
     EXCEPT !.bpy_prop = "FloatProperty"]
P_COLOR ==
  [BFPropCls("BFProp", T_COLOR, None, "bf_color", "", NoOther)
     EXCEPT !.bpy_prop = "IntVectorProperty"]
P_THICKEN ==
  [BFPropCls("BFProp", T_THICKEN, Scalar(PyBool(FALSE)), "bf_thicken", "", NoOther)
     EXCEPT !.bpy_prop = "BoolProperty"]
P_N ==
  [BFPropCls("BFProp", T_N, None, "bf_n", "", NoOther)
     EXCEPT !.bpy_prop = "IntProperty", !.check_info = T_info]
P_LABEL ==
  [BFPropCls("BFStringProp", <<>>, EmptyStr, "bf_free_namelist", "", NoOther)
     EXCEPT !.bpy_prop = "StringProperty"]
P_CHID ==
  [BFPropCls("BFStringProp", T_CHID, EmptyStr, "name", "", NoOther)
     EXCEPT !.bpy_prop = "StringProperty"]
P_TITLE ==
  [BFPropCls("BFStringProp", T_TITLE, EmptyStr, "bf_head_title", "", NoOther)
     EXCEPT !.bpy_prop = "StringProperty"]

ON_OBST ==
  BFNamelistCls("ON_OBST", T_OBST, "bf_export",
                <<P_ID, P_FYI, P_THICKNESS, P_FREE>>, "Object")
ON_DEVC ==
  BFNamelistCls("ON_DEVC", T_DEVC, "bf_export",
                <<P_ID, P_N, P_COLOR, P_THICKEN>>, "Object")
ON_free ==
  BFNamelistCls("ON_free", <<>>, "bf_export", <<P_LABEL, P_ID, P_FREE>>, "Object")
SN_HEAD == BFNamelistCls("SN_HEAD", T_HEAD, "", <<P_CHID, P_TITLE>>, "Scene")
MN_SURF ==
  BFNamelistCls("MN_SURF", T_SURF, "bf_export", <<P_ID, P_COLOR>>, "Material")

NamelistClasses == {ON_OBST, ON_DEVC, ON_free, SN_HEAD, MN_SURF}

Str1(text) == Scalar(PyStr(text))

\* the values an attribute of an element takes in the runs
AttrValues(a) ==
  CASE a = "name" -> {EmptyStr, Str1(<<"x">>), Str1(<<"a", "&">>)}
    [] a = "bf_fyi" -> {EmptyStr, Str1(<<"a", " ", "b">>), Str1(<<"#">>)}
    [] a = "bf_free" -> {EmptyStr, Str1(<<"A", "=", "1">>), Str1(<<"'">>)}
    [] a = "bf_thickness" -> {Scalar(PyFloat(0)), Scalar(F_1_5), Scalar(F_1_2342)}
    [] a = "bf_color" -> {Tuple(<<PyInt(3), PyInt(4), PyInt(5)>>),
                          Tuple(<<PyInt(0), PyInt(0), PyInt(-12)>>)}
    [] a = "bf_thicken" -> {Scalar(PyBool(TRUE)), Scalar(PyBool(FALSE))}
    [] a = "bf_n" -> {Scalar(PyInt(3))}
    [] a = "bf_free_namelist" -> {EmptyStr, Str1(T_DEVC)}
    [] a = "bf_head_title" -> {EmptyStr, Str1(<<"x">>)}
    [] a = "bf_time_t_end" -> {Scalar(PyFloat(0)), Scalar(F_1_5)}
    [] a = "bf_time_fyi" -> {EmptyStr, Str1(<<"#">>)}
    [] OTHER -> {Scalar(PyBool(TRUE)), Scalar(PyBool(FALSE))}

\* the attributes a namelist class reads: its properties' and the export flags
Attrs(nl) ==
  ({nl.bf_prop_export}
     \cup UNION {{nl.bf_props[i].bpy_idname, nl.bf_props[i].bf_prop_export}
                   : i \in 1..Len(nl.bf_props)}) \ {""}

RECURSIVE ElementsOver(_)
ElementsOver(attrs) ==
  IF attrs = {} THEN {[a \in {} |-> None]}
  ELSE LET a == CHOOSE x \in attrs : TRUE
       IN  {(a :> v) @@ e : v \in AttrValues(a), e \in ElementsOver(attrs \ {a})}

\* the scalar params and the multiparam bodies handed to format
S_ID == <<"I", "D", "=", "'", "x", "'">>
S_XB == <<"X", "B", "=", "1", ".", ",", "2", ".", ",", "3", ".", ",",
          "4", ".", ",", "5", ".", ",", "6", ".">>
S_C == <<"C", "=", "1">>
S_DEVC == <<"D", "E", "V", "C">>
ScalarParams == {S_ID, S_XB, S_C, S_DEVC}

AltBody(i) ==
  <<"I", "D", "=", "'", "x", "_">> \o Decimal(i) \o <<"'", " ", "X", "B", "=">>
    \o Decimal(i)

InsertAt(seq, i, x) == SubSeq(seq, 1, i - 1) \o <<x>> \o SubSeq(seq, i, Len(seq))

ScalarLists ==
  UNION {{f \in [1..n -> ScalarParams] : \A i, j \in 1..n : f[i] = f[j] => i = j}
           : n \in 0..MaxParams}

ParamLists ==
  LET plain == {[i \in 1..Len(f) |-> Param(f[i])] : f \in ScalarLists}
  IN  plain \cup
      UNION {{InsertAt(l, i, Multiparam([k \in 1..n |-> AltBody(k)]))
                : i \in 1..(Len(l) + 1), n \in 1..MaxAlt} : l \in plain}

InfoLists == {<<>>, <<T_info>>}

InitNamelist ==
  /\ bf_prop = P_ID
  /\ ret = RetNone
  /\ op = ""
  /\ inst_id = 0
  /\ exports = <<>>
  /\ mutated = FALSE
  /\ imported = NoImport
  /\ scene = NoScene
  /\ \/ /\ pc = "namelist"
        /\ bf_namelist \in NamelistClasses
        /\ element \in ElementsOver(Attrs(bf_namelist))
        /\ instance = NewInstance(bf_namelist)
        /\ format_params = <<>>
     \/ /\ pc = "ready"
        /\ bf_namelist \in {ON_OBST, ON_free}
        /\ element = [a \in {} |-> None]
        /\ instance \in {[NewInstance(bf_namelist) EXCEPT !.self = i] : i \in InfoLists}
        /\ format_params \in ParamLists

\* bf_namelist.format(context, params)
CallNamelistFormat ==
  /\ pc = "ready"
  /\ ret' = NamelistFormat(bf_namelist, instance.self, format_params)
  /\ op' = "format"
  /\ pc' = "done"
  /\ UNCHANGED <<bf_prop, element, nlVars>>

\* bf_namelist.to_fds(context) on the instance in use
CallNamelistToFds ==
  /\ pc = "namelist"
  /\ Len(exports) < MaxExports
  /\ LET r == NamelistToFds(bf_namelist, element, instance)
     IN  /\ instance' = r.inst
         /\ exports' = Append(exports,
              [ret |-> r.ret, inst_id |-> inst_id, infos |-> r.inst.self,
               element |-> element])
  /\ op' = "to_fds"
  /\ UNCHANGED <<pc, bf_prop, element, ret, bf_namelist, inst_id, format_params,
                 mutated, imported, scene>>

\* a new instance of the namelist class around the same element
MakeInstance ==
  /\ pc = "namelist"
  /\ Len(exports) = 1
  /\ inst_id = 0
  /\ instance' = NewInstance(bf_namelist)
  /\ inst_id' = inst_id + 1
  /\ UNCHANGED <<pc, op, bf_prop, element, ret, bf_namelist, exports,
                 format_params, mutated, imported, scene>>

\* the user edits one attribute of the element between two exports
EditElement ==
  /\ pc = "namelist"
  /\ Len(exports) = 1
  /\ ~mutated
  /\ \E a \in DOMAIN element : \E v \in AttrValues(a) :
        /\ v # element[a]
        /\ element' = [element EXCEPT ![a] = v]
  /\ mutated' = TRUE
  /\ UNCHANGED <<pc, op, bf_prop, ret, bf_namelist, instance, inst_id, exports,
                 format_params, imported, scene>>

\* the tokens of the record of the last export, imported by a new instance
\* of the namelist class into a fresh element of the same kind
ImportRecord ==
  /\ pc = "namelist"
  /\ Len(exports) >= 1
  /\ ~imported.done
  /\ exports[Len(exports)].ret.kind = "text"
  /\ Parseable(exports[Len(exports)].ret.text)
  /\ LET e == exports[Len(exports)]
         tokens == Tokenize(e.ret.text).params
         r == NamelistFromFds(bf_namelist, FreshElement(bf_namelist), tokens)
     IN  imported' = [done |-> TRUE, source |-> e.element, element |-> r.el,
                      ret |-> r.ret, tokens |-> tokens]
  /\ op' = "from_fds"
  /\ UNCHANGED <<pc, bf_prop, element, ret, bf_namelist, instance, inst_id, exports,
                 format_params, mutated, scene>>

Next ==
  \/ CallNamelistFormat
  \/ CallNamelistToFds
  \/ MakeInstance
  \/ EditElement
  \/ ImportRecord

Spec == InitNamelist /\ [][Next]_vars

(***************************************************************************)
(* Scene-level runs: BFScene.from_fds on a document of records.  The scene *)
(* holds its own element, the Objects and Materials made by the import and *)
(* the contents of the HEAD free text file.                                *)
(***************************************************************************)
MaxTokens == 2      \* most records of a document
MaxImports == 2     \* most from_fds calls of one run

\* BFNamelist.all
AllNamelists == <<ON_OBST, ON_DEVC, ON_free, SN_HEAD, MN_SURF>>

NamelistIndex(name) ==
  CHOOSE i \in 1..Len(AllNamelists) : AllNamelists[i].name = name

GeometryLabels == {<<"X", "B">>, <<"X", "Y", "Z">>, <<"P", "B", "X">>, <<"P", "B", "Y">>, <<"P", "B", "Z">>}

\* BFScene._get_imported_bf_namelist_cls: the index of the class in
\* BFNamelist.all, 0 for None
get_imported_bf_namelist_cls(fds_label, fds_params) ==
  IF get_by_fds_label(AllNamelists, fds_label) # 0
  THEN get_by_fds_label(AllNamelists, fds_label)
  ELSE IF \E i \in 1..Len(fds_params) : fds_params[i].label \in GeometryLabels
  THEN NamelistIndex("ON_free")
  ELSE 0

T_New == <<"N", "e", "w", " ">>

\* geometry.utils.get_new_object, get_new_material: name="New {}".format(fds_label)
NewElement(cls, fds_label) ==
  LET fresh == FreshElement(cls)
  IN  IF "name" \in DOMAIN fresh
      THEN [fresh EXCEPT !["name"] = Scalar(PyStr(T_New \o fds_label))]
      ELSE fresh

\* BFScene._get_imported_element: the element, and the namelist it is linked
\* to (element.bf_namelist_cls)
get_imported_element(self, cls, fds_label) ==
  CASE cls.bpy_type = "Scene" ->
         [ret |-> RetNone, kind |-> "Scene", bf_namelist_cls |-> "", el |-> self]
    [] cls.bpy_type = "Object" ->
         [ret |-> RetNone, kind |-> "Object", bf_namelist_cls |-> cls.name,
          el |-> NewElement(cls, fds_label)]
    [] cls.bpy_type = "Material" ->
         [ret |-> RetNone, kind |-> "Material", bf_namelist_cls |-> "MN_SURF",
          el |-> NewElement(cls, fds_label)]
    [] OTHER ->
         [ret |-> Raise("ValueError", "Unrecognized namelist type!"), kind |-> "",
          bf_namelist_cls |-> "", el |-> <<>>]

\* BFScene._save_imported_unmanaged_tokens: the new contents of the file
save_imported_unmanaged_tokens_replace(old_free_texts, texts) ==
  Join(<<"\n">>, texts)

save_imported_unmanaged_tokens(old_free_texts, texts) ==
  Join(<<"\n">>, IF old_free_texts # <<>> THEN Append(texts, old_free_texts)
                 ELSE texts)

StartScene(sc) ==
  [self |-> sc.self, objects |-> sc.objects, free_texts |-> <<>>,
   errors |-> FALSE, failed |-> <<>>, abort |-> NoAbort]

OnImported_abort(acc, token, e, r) ==
  LET made == IF e.kind = "Scene" THEN [acc EXCEPT !.self = r.el]
              ELSE [acc EXCEPT !.objects =
                      Append(@, [bf_namelist_cls |-> e.bf_namelist_cls,
                                 el |-> r.el])]
  IN  IF r.ret.kind = "raise" THEN [made EXCEPT !.abort = r.ret] ELSE made

\* BFScene.from_fds: what the loop keeps of the import of a token by its
\* namelist, r what BFNamelist.from_fds left and returned or raised
OnImported(acc, token, e, r) ==
  LET made == IF e.kind = "Scene" THEN [acc EXCEPT !.self = r.el]
              ELSE [acc EXCEPT !.objects =
                      Append(@, [bf_namelist_cls |-> e.bf_namelist_cls,
                                 el |-> r.el])]
  IN  IF r.ret.kind = "raise"
      THEN [made EXCEPT !.errors = TRUE,
                        !.free_texts = @ \o free_texts(r.ret),
                        !.failed = Append(@, token.original)]
      ELSE made

\* BFScene.from_fds: a token of a managed namelist, e its element
ImportInto(acc, token, cls, e) ==
  IF e.ret.kind = "raise" THEN [acc EXCEPT !.abort = e.ret]
  ELSE OnImported(acc, token, e, NamelistFromFds(cls, e.el, token.params))

\* BFScene.from_fds: one token of the loop
ImportNamelist(acc, token) ==
  IF get_imported_bf_namelist_cls(token.label, token.params) = 0
  THEN [acc EXCEPT !.free_texts = Append(@, token.original)]
  ELSE ImportInto(acc, token,
         AllNamelists[get_imported_bf_namelist_cls(token.label, token.params)],
         get_imported_element(acc.self,
           AllNamelists[get_imported_bf_namelist_cls(token.label, token.params)],
           token.label))

RECURSIVE ImportNamelists(_, _, _)
ImportNamelists(tokens, i, acc) ==
  IF i > Len(tokens) \/ acc.abort.kind = "raise" THEN acc
  ELSE ImportNamelists(tokens, i + 1, ImportNamelist(acc, tokens[i]))

MsgSummary == "Errors reported, see details in HEAD free text file."

\* fds.to_py.tokenize on a document: its tokens, or a BFException whose
\* free_texts hold the text when a record of it is not parsed
TokenizeDocument(document) ==
  IF \A i \in 1..Len(document) : Parseable(document[i])
  THEN [ret |-> RetNone, tokens |-> [i \in 1..Len(document) |-> Tokenize(document[i])],
        free_texts |-> <<>>]
  ELSE [ret |-> Raise("BFException", "Unparseable text"), tokens |-> <<>>,
        free_texts |-> document]

\* BFScene.from_fds: the save of the free texts and the return
SaveAndReturn(sc, document, acc) ==
  IF acc.abort.kind = "raise"
  THEN [sc EXCEPT !.self = acc.self, !.objects = acc.objects,
                  !.ret = acc.abort, !.document = document,
                  !.failed = acc.failed, !.calls = @ + 1]
  ELSE [self |-> acc.self, objects |-> acc.objects,
        texts |-> save_imported_unmanaged_tokens(sc.texts, acc.free_texts),
        ret |-> IF acc.errors THEN Raise("BFException", MsgSummary) ELSE RetNone,
        document |-> document, failed |-> acc.failed, calls |-> sc.calls + 1]

\* BFScene.from_fds: the loop over the tokens, t what tokenize gave
ImportTokenized(sc, document, t) ==
  SaveAndReturn(sc, document,
    ImportNamelists(SortedTokens(t.tokens), 1,
                    [StartScene(sc) EXCEPT !.errors = t.ret.kind = "raise",
                                           !.free_texts = t.free_texts]))

\* BFScene.from_fds
SceneFromFds(sc, document) ==
  ImportTokenized(sc, document, TokenizeDocument(document))

\* the records of the documents
R_OBST == <<"&", "O", "B", "S", "T", " ", "I", "D", "=", "'", "x", "'", " ", "/">>
R_OBST_FOO == <<"&", "O", "B", "S", "T", " ", "F", "O", "O", "=", "1", " ", "/">>
R_OBST_ID3 == <<"&", "O", "B", "S", "T", " ", "I", "D", "=", "3", " ", "/">>
R_DEVC_FOO == <<"&", "D", "E", "V", "C", " ", "F", "O", "O", "=", "1", " ", "/">>
R_ZZZ == <<"&", "Z", "Z", "Z", " ", "A", "=", "1", " ", "/">>
R_ZZZ_XB == <<"&", "Z", "Z", "Z", " ", "X", "B", "=", "1", " ", "/">>
R_HEAD == <<"&", "H", "E", "A", "D", " ", "T", "I", "T", "L", "E", "=", "'", "x", "'", " ", "/">>
R_SURF == <<"&", "S", "U", "R", "F", " ", "I", "D", "=", "'", "x", "'", " ", "/">>
R_SURF_ID == <<"&", "S", "U", "R", "F", "_", "I", "D", " ", "A", "=", "1", " ", "/">>
R_open == <<"&", "O", "B", "S", "T", " ", "I", "D", "=", "'", "x">>

Records ==
  {R_OBST, R_OBST_FOO, R_OBST_ID3, R_DEVC_FOO, R_ZZZ, R_ZZZ_XB, R_HEAD, R_SURF,
   R_SURF_ID, R_open}

Documents ==
  UNION {{d \in [1..n -> Records] : \A i, j \in 1..n : d[i] = d[j] => i = j}
           : n \in 0..MaxTokens}

T_old == <<"!", " ", "o", "l", "d">>

InitScene ==
  /\ pc = "scene"
  /\ op = ""
  /\ bf_prop = P_ID
  /\ element = [a \in {} |-> None]
  /\ ret = RetNone
  /\ bf_namelist = SN_HEAD
  /\ instance = NewInstance(SN_HEAD)
  /\ inst_id = 0
  /\ exports = <<>>
  /\ format_params = <<>>
  /\ mutated = FALSE
  /\ imported = NoImport
  /\ scene \in {[NoScene EXCEPT !.self = FreshElement(SN_HEAD), !.texts = t]
                  : t \in {<<>>, T_old}}

\* scene.from_fds(context, value)
CallSceneFromFds ==
  /\ pc = "scene"
  /\ scene.calls < MaxImports
  /\ \E document \in Documents : scene' = SceneFromFds(scene, document)
  /\ op' = "from_fds"
  /\ UNCHANGED <<pc, bf_prop, element, ret, bf_namelist, instance, inst_id, exports,
                 format_params, mutated, imported>>

NextScene == CallSceneFromFds

SpecScene == InitScene /\ [][NextScene]_vars

(***************************************************************************)
(* Import runs: BFNamelist.from_fds and BFProp.from_fds called with tokens *)
(* on an element that is new or that an earlier import or edit has filled. *)
(***************************************************************************)
MaxImportParams == 3  \* most tokens of one namelist import

T_TIME == <<"T", "I", "M", "E">>
T_T_END == <<"T", "_", "E", "N", "D">>

P_T_END ==
  [BFPropCls("BFProp", T_T_END, None, "bf_time_t_end", "", NoOther)
     EXCEPT !.bpy_prop = "FloatProperty"]
P_XB ==
  [BFPropCls("BFProp", T_XB, None, "bf_xb", "", NoOther)
     EXCEPT !.bpy_prop = "IntVectorProperty", !.no_auto_import = TRUE]

P_TIME_FYI ==
  [BFPropCls("BFStringProp", T_FYI, EmptyStr, "bf_time_fyi", "", NoOther)
     EXCEPT !.bpy_prop = "StringProperty"]

SN_TIME ==
  BFNamelistCls("SN_TIME", T_TIME, "bf_time_export", <<P_T_END, P_TIME_FYI>>,
                "Scene")

ImportClasses == NamelistClasses \cup {SN_TIME}

\* the words of the params of the imported records
W_ID == <<"I", "D", "=", "'", "x", "'">>
W_ID3 == <<"I", "D", "=", "3">>
W_FOO == <<"F", "O", "O", "=", "1">>
W_BAR == <<"B", "A", "R", "=", "'", "b", "'">>
W_THICKNESS == <<"T", "H", "I", "C", "K", "N", "E", "S", "S", "=", "1", ".", "5">>
W_THICKNESS_q == <<"T", "H", "I", "C", "K", "N", "E", "S", "S", "=", "'", "q", "'">>
W_TITLE == <<"T", "I", "T", "L", "E", "=", "'", "t", "'">>
W_T_END == <<"T", "_", "E", "N", "D", "=", "2", ".", "5">>
W_FYI == <<"F", "Y", "I", "=", "'", "f", "'">>
W_SURF_ID == <<"S", "U", "R", "F", "_", "I", "D", "=", "'", "s", "'">>

ImportWords ==
  {W_ID, W_ID3, W_FOO, W_BAR, W_THICKNESS, W_THICKNESS_q, W_TITLE, W_T_END,
   W_FYI, W_SURF_ID}

\* tokens is a dict keyed by fds_label: no two tokens of one label
ImportTokenLists ==
  UNION {{[i \in 1..n |-> ParamToken(f[i])] :
            f \in {g \in [1..n -> ImportWords] :
                     \A i, j \in 1..n :
                       ParamToken(g[i]).label = ParamToken(g[j]).label => i = j}}
           : n \in 0..MaxImportParams}

\* an element every attribute of which was set away from its fresh value
StaleElement(nl) ==
  [a \in DOMAIN FreshElement(nl) |->
     CHOOSE v \in AttrValues(a) : v # FreshElement(nl)[a]]

ImportElements(nl) == {FreshElement(nl), StaleElement(nl)}

\* the values handed to from_fds of one descriptor
ImportValues ==
  {ParamToken(w).value : w \in ImportWords}
    \cup {Tuple(<<PyInt(3), PyInt(4), PyInt(5)>>), Scalar(PyBool(TRUE))}

\* the descriptor classes from_fds is called on: those of the namelist, and
\* one with no automatic import
ImportProps(nl) ==
  {AllBfProps(nl)[i] : i \in 1..Len(AllBfProps(nl))} \cup {P_XB}

InitImport ==
  /\ pc = "import"
  /\ op = ""
  /\ bf_prop = P_ID
  /\ bf_namelist \in ImportClasses
  /\ element \in ImportElements(bf_namelist)
  /\ ret = RetNone
  /\ instance = NewInstance(bf_namelist)
  /\ inst_id = 0
  /\ exports = <<>>
  /\ format_params = <<>>
  /\ mutated = FALSE
  /\ imported = NoImport
  /\ scene = NoScene

\* bf_namelist(element).from_fds(context, tokens)
CallNamelistFromFds ==
  /\ pc = "import"
  /\ \E tokens \in ImportTokenLists :
       /\ imported' = [done |-> TRUE, source |-> element,
                       element |-> NamelistFromFds(bf_namelist, element, tokens).el,
                       ret |-> NamelistFromFds(bf_namelist, element, tokens).ret,
                       tokens |-> tokens]
       /\ element' = NamelistFromFds(bf_namelist, element, tokens).el
       /\ ret' = NamelistFromFds(bf_namelist, element, tokens).ret
  /\ op' = "from_fds"
  /\ pc' = "done"
  /\ UNCHANGED <<bf_prop, bf_namelist, instance, inst_id, exports, format_params,
                 mutated, scene>>

\* bf_prop(element).from_fds(context, value)
CallPropFromFds ==
  /\ pc = "import"
  /\ \E p \in ImportProps(bf_namelist) : \E value \in ImportValues :
       /\ bf_prop' = p
       /\ imported' = [done |-> TRUE, source |-> element,
                       element |-> from_fds(p, element, value).el,
                       ret |-> from_fds(p, element, value).ret,
                       tokens |-> <<[label |-> p.fds_label, value |-> value,
                                     fds_value |-> <<>>]>>]
       /\ element' = from_fds(p, element, value).el
       /\ ret' = from_fds(p, element, value).ret
  /\ op' = "prop.from_fds"
  /\ pc' = "done"
  /\ UNCHANGED <<bf_namelist, instance, inst_id, exports, format_params, mutated,
                 scene>>

NextImport == CallNamelistFromFds \/ CallPropFromFds

SpecImport == InitImport /\ [][NextImport]_vars

(***************************************************************************)
(* Document export runs: BFScene.to_fds and BFObject.to_fds on the data of *)
(* a Blender file.  The file holds the scene element, the name and the     *)
(* contents of the HEAD free text file, the Materials and the Objects; an  *)
(* Object or Material has its element, the name of its namelist class, and *)
(* an Object its type and the name of its parent, <<>> when it has none.   *)
(* The texts the code takes from its environment (versions, date, file     *)
(* path, elapsed seconds) are single symbols.                              *)
(***************************************************************************)
MaxObjects == 3     \* most Objects of the file
MaxMaterials == 2   \* most Materials of the file

T_MESH == <<"M", "E", "S", "H">>
T_INERT == <<"I", "N", "E", "R", "T">>

ON_MESH == BFNamelistCls("ON_MESH", T_MESH, "bf_export", <<P_ID, P_FYI>>, "Object")

\* BFNamelist.all of the export runs, in the order of subscription
ExportNamelists == <<SN_TIME, ON_OBST, ON_MESH, SN_HEAD, MN_SURF>>

\* the enum_id class attribute
enum_id(nl) ==
  CASE nl.name = "SN_HEAD" -> 3001
    [] nl.name = "SN_TIME" -> 3002
    [] OTHER -> 0

\* fds.surf.predefined
Predefined == {T_INERT}

\* ord(c) of the characters of the names
CodePoint(c) ==
  CASE c = "&" -> 38
    [] c = "E" -> 69
    [] c = "I" -> 73
    [] c = "N" -> 78
    [] c = "R" -> 82
    [] c = "T" -> 84
    [] c = "a" -> 97
    [] c = "b" -> 98

\* s < t of two Python str
StrLess(s, t) ==
  \E i \in 1..(Len(t)) :
    /\ \A j \in 1..(i - 1) : j <= Len(s) /\ s[j] = t[j]
    /\ i > Len(s) \/ (i <= Len(s) /\ CodePoint(s[i]) < CodePoint(t[i]))

NameOf(x) == StrOf(x.el["name"])

\* list.sort(key=lambda k: k.name): stable
SortedByName(items) ==
  LET before(i, j) ==
        \/ StrLess(NameOf(items[i]), NameOf(items[j]))
        \/ NameOf(items[i]) = NameOf(items[j]) /\ i < j
      rank(i) == Cardinality({j \in 1..Len(items) : before(j, i)}) + 1
  IN  [k \in 1..Len(items) |-> items[CHOOSE i \in 1..Len(items) : rank(i) = k]]

SortedMeshFirst_unsorted(items) == items

\* list.sort(key=lambda k: k.bf_namelist_cls != "ON_MESH"): stable
SortedMeshFirst(items) ==
  SelectSeq(items, LAMBDA x : x.bf_namelist_cls = "ON_MESH")
    \o SelectSeq(items, LAMBDA x : x.bf_namelist_cls # "ON_MESH")

\* list.sort(key=lambda k: k.enum_id): stable
SortedByEnumId(nls) ==
  LET before(i, j) ==
        \/ enum_id(nls[i]) < enum_id(nls[j])
        \/ enum_id(nls[i]) = enum_id(nls[j]) /\ i < j
      rank(i) == Cardinality({j \in 1..Len(nls) : before(j, i)}) + 1
  IN  [k \in 1..Len(nls) |-> nls[CHOOSE i \in 1..Len(nls) : rank(i) = k]]

\* BFScene.bf_namelists
bf_namelists == SortedByEnumId(SelectSeq(ExportNamelists, LAMBDA c : c.bpy_type = "Scene"))

\* BFNamelist.all.get(name): the index of the class, 0 for None
NamelistNamed(name) ==
  IF \E i \in 1..Len(ExportNamelists) : ExportNamelists[i].name = name
  THEN CHOOSE i \in 1..Len(ExportNamelists) : ExportNamelists[i].name = name
  ELSE 0

\* bf_namelist.to_fds(context) of a new instance of the class around el
ExportBy(nl, el) == NamelistToFds(nl, el, NewInstance(nl)).ret

NoBodies == RetText(<<>>)

\* bodies of a first part followed by those of a second one, which is not
\* reached when the first raises; a body of None or "" is not appended
Then(a, b) ==
  IF a.kind = "raise" THEN a
  ELSE IF b.kind = "raise" THEN b
  ELSE RetText(a.text \o b.text)

\* if bodies: bodies.append("\n")
EndBlock(b) ==
  IF b.kind = "text" /\ b.text # <<>> THEN RetText(b.text \o <<"\n">>) ELSE b

\* BFScene._myself_to_fds: the loop over self.bf_namelists, from i on
RECURSIVE MyselfBodies(_, _, _)
MyselfBodies(el, nls, i) ==
  IF i > Len(nls) THEN NoBodies
  ELSE Then(ExportBy(nls[i], el), MyselfBodies(el, nls, i + 1))

\* BFScene._myself_to_fds
ScnMyselfToFds(file) == EndBlock(MyselfBodies(file.self, bf_namelists, 1))

\* BFMaterial.to_fds
MaToFds(ma) ==
  IF NameOf(ma) \in Predefined \/ NamelistNamed(ma.bf_namelist_cls) = 0
  THEN RetNone
  ELSE ExportBy(ExportNamelists[NamelistNamed(ma.bf_namelist_cls)], ma.el)

RECURSIVE MaterialBodies(_, _)
MaterialBodies(mas, i) ==
  IF i > Len(mas) THEN NoBodies
  ELSE Then(MaToFds(mas[i]), MaterialBodies(mas, i + 1))

\* BFObject._myself_to_fds
ObMyselfToFds(ob) ==
  IF ~Truthy(ob.el["bf_export"]) THEN NoBodies
  ELSE IF ob.type = "MESH"
  THEN IF NamelistNamed(ob.bf_namelist_cls) = 0 THEN NoBodies
       ELSE ExportBy(ExportNamelists[NamelistNamed(ob.bf_namelist_cls)], ob.el)
  ELSE IF ob.type = "EMPTY"
  THEN RetText(<<"!", " ", "-", "-", " ">> \o NameOf(ob) \o <<":", " ">> \o StrOf(ob.el["bf_fyi"]) \o <<"\n">>)
  ELSE NoBodies

\* BFObject._children_to_fds of the object named parent (<<>>: self=None) and
\* BFObject.to_fds, over the Objects of the scene
RECURSIVE ObChildrenToFds(_, _)
RECURSIVE ObToFds(_, _, _)
RECURSIVE ObBodies(_, _, _)
ObBodies(objects, children_obs, i) ==
  IF i > Len(children_obs) THEN NoBodies
  ELSE Then(ObToFds(objects, children_obs[i], TRUE),
            ObBodies(objects, children_obs, i + 1))

ObChildrenToFds(objects, parent) ==
  EndBlock(ObBodies(objects,
    SortedMeshFirst(SortedByName(SelectSeq(objects, LAMBDA ob : ob.parent = parent))),
    1))

ObToFds(objects, ob, with_children) ==
  IF with_children
  THEN Then(ObMyselfToFds(ob), ObChildrenToFds(objects, NameOf(ob)))
  ELSE ObMyselfToFds(ob)

BoundaryTitle == <<"\n", "!", " ", "-", "-", "-", " ", "B", "o", "u", "n", "d", "a", "r", "y", " ", "c", "o", "n", "d", "i", "t", "i", "o", "n", "s", " ", "(", "f", "r", "o", "m", " ", "B", "l", "e", "n", "d", "e", "r", " ", "M", "a", "t", "e", "r", "i", "a", "l", "s", ")", "\n">>
GeometryTitle == <<"\n", "!", " ", "-", "-", "-", " ", "G", "e", "o", "m", "e", "t", "r", "i", "c", " ", "e", "n", "t", "i", "t", "i", "e", "s", " ", "(", "f", "r", "o", "m", " ", "B", "l", "e", "n", "d", "e", "r", " ", "O", "b", "j", "e", "c", "t", "s", ")", "\n">>

\* BFScene._children_to_fds
ScnChildrenToFds(file) ==
  Then(RetText(BoundaryTitle),
       Then(MaterialBodies(SortedByName(file.materials), 1),
            Then(RetText(GeometryTitle), ObChildrenToFds(file.objects, <<>>))))

\* BFScene._header_to_fds
ScnHeaderToFds(file) ==
  RetText(<<"!", " ", "G", "e", "n", "e", "r", "a", "t", "e", "d", " ", "b", "y", " ", "B", "l", "e", "n", "d", "e", "r", "F", "D", "S", " ", "<version>", " ", "o", "n", " ", "B", "l", "e", "n", "d", "e", "r", " ", "<blender>", "\n">>
            \o <<"!", " ", "C", "a", "s", "e", ":", " ">> \o StrOf(file.self["name"]) \o <<" ", "(", "f", "r", "o", "m", " ", "B", "l", "e", "n", "d", "e", "r", " ", "S", "c", "e", "n", "e", ")", "\n">>
            \o <<"!", " ", "D", "e", "s", "c", "r", "i", "p", "t", "i", "o", "n", ":", " ">> \o StrOf(file.self["bf_head_title"]) \o <<"\n">>
            \o <<"!", " ", "D", "a", "t", "e", ":", " ", "<date>", "\n">>
            \o <<"!", " ", "F", "i", "l", "e", ":", " ", "<filepath>", "\n", "\n">>)

\* BFScene._free_text_to_fds
ScnFreeTextToFds(file) ==
  IF file.bf_head_free_text = <<>> \/ file.texts = <<>> THEN NoBodies
  ELSE RetText(<<"!", " ", "-", "-", "-", " ", "F", "r", "e", "e", " ", "t", "e", "x", "t", ":", " ", "'">> \o file.bf_head_free_text \o <<"'", "\n">>
                 \o file.texts
                 \o (IF file.texts[Len(file.texts)] # "\n" THEN <<"\n">> ELSE <<>>))

TailRecord == <<"&", "T", "A", "I", "L", " ", "/", "\n", "!", " ", "G", "e", "n", "e", "r", "a", "t", "e", "d", " ", "i", "n", " ", "<seconds>", " ", "s", ".">>

ScnToFds_children_first(file, with_children) ==
  IF with_children
  THEN Then(ScnHeaderToFds(file),
         Then(ScnMyselfToFds(file),
           Then(ScnChildrenToFds(file),
             Then(ScnFreeTextToFds(file), RetText(TailRecord)))))
  ELSE Then(ScnMyselfToFds(file), ScnFreeTextToFds(file))

\* BFScene.to_fds
ScnToFds(file, with_children) ==
  IF with_children
  THEN Then(ScnHeaderToFds(file),
         Then(ScnMyselfToFds(file),
           Then(ScnFreeTextToFds(file),
             Then(ScnChildrenToFds(file), RetText(TailRecord)))))
  ELSE Then(ScnMyselfToFds(file), ScnFreeTextToFds(file))

\* the scene element: the attributes of the scene namelists
SceneElement(name, title, time_export, time_fyi) ==
  [(FreshElement(SN_HEAD) @@ FreshElement(SN_TIME)) EXCEPT
     !["name"] = Str1(name),
     !["bf_head_title"] = Str1(title),
     !["bf_time_export"] = Scalar(PyBool(time_export)),
     !["bf_time_t_end"] = Scalar(F_1_5),
     !["bf_time_fyi"] = Str1(time_fyi)]

\* the Objects of the runs: an OBST, a MESH, an Empty, a MESH that is not
\* exported and an OBST whose FYI does not pass its check
ObjectKinds == {"obst", "mesh", "empty", "hidden", "bad"}

ObjectClass(kind) == IF kind \in {"mesh", "hidden"} THEN ON_MESH ELSE ON_OBST

MakeObject(name, kind, parent) ==
  [el |-> [FreshElement(ObjectClass(kind)) EXCEPT
             !["name"] = Str1(name),
             !["bf_export"] = Scalar(PyBool(kind # "hidden")),
             !["bf_fyi"] = CASE kind = "bad" -> Str1(<<"#">>)
                             [] kind = "empty" -> Str1(<<"f">>)
                             [] OTHER -> EmptyStr],
   bf_namelist_cls |-> ObjectClass(kind).name,
   type |-> IF kind = "empty" THEN "EMPTY" ELSE "MESH",
   parent |-> parent]

MakeMaterial(name) ==
  [el |-> [FreshElement(MN_SURF) EXCEPT !["name"] = Str1(name),
                                        !["bf_export"] = Scalar(PyBool(TRUE))],
   bf_namelist_cls |-> "MN_SURF"]

ObjectNames == {<<"a">>, <<"a", "b">>, <<"b">>}
MaterialNames == {<<"a">>, <<"b", "&">>, T_INERT}

\* whether following par from i reaches 0, no Object being its own ancestor
RECURSIVE ReachesRoot(_, _, _)
ReachesRoot(par, i, steps) ==
  IF i = 0 THEN TRUE
  ELSE IF steps = 0 THEN FALSE
  ELSE ReachesRoot(par, par[i], steps - 1)

\* the lists of n Objects of distinct names, in any order, each with any
\* parent among the others
ObjectLists(n, kinds) ==
  {[i \in 1..n |->
      MakeObject(names[i], kind[i], IF par[i] = 0 THEN <<>> ELSE names[par[i]])] :
     names \in {f \in [1..n -> ObjectNames] : \A i, j \in 1..n : f[i] = f[j] => i = j},
     kind \in [1..n -> kinds],
     par \in {p \in [1..n -> 0..n] : \A i \in 1..n : ReachesRoot(p, i, n)}}

MaterialLists ==
  UNION {{[i \in 1..n |-> MakeMaterial(f[i])] :
            f \in {g \in [1..n -> MaterialNames] : \A i, j \in 1..n : g[i] = g[j] => i = j}}
           : n \in 0..MaxMaterials}

T_text == <<"t">>
T_old_line == <<"!", " ", "o", "l", "d", "\n">>

BlendFile(self, free_text, texts, materials, objects) ==
  [self |-> self, bf_head_free_text |-> free_text, texts |-> texts,
   materials |-> materials, objects |-> objects]

DefaultScene == SceneElement(<<"a">>, <<"t">>, TRUE, <<>>)

\* the files of the runs: every scene with few children, every list of
\* Materials and of up to two Objects, and every list of more Objects
BlendFiles ==
  {BlendFile(SceneElement(name, title, time_export, time_fyi), ft[1], ft[2],
             materials, objects) :
     name \in {<<"a">>, <<"a", "&">>}, title \in {<<>>, <<"t">>}, time_export \in BOOLEAN,
     time_fyi \in {<<>>, <<"#">>},
     ft \in {<<<<>>, <<>>>>, <<T_text, <<>>>>, <<T_text, T_old>>, <<T_text, T_old_line>>},
     materials \in {<<>>, <<MakeMaterial(<<"a">>)>>, <<MakeMaterial(<<"b", "&">>)>>},
     objects \in {<<>>} \cup ObjectLists(1, {"obst", "bad"})}
    \cup
  {BlendFile(DefaultScene, T_text, T_old, materials, objects) :
     materials \in MaterialLists,
     objects \in UNION {ObjectLists(n, ObjectKinds) : n \in 0..(MaxObjects - 1)}}
    \cup
  {BlendFile(DefaultScene, T_text, T_old, <<>>, objects) :
     objects \in ObjectLists(MaxObjects, ObjectKinds \ {"bad"})}

InitExport ==
  /\ pc = "export"
  /\ op = ""
  /\ bf_prop = P_ID
  /\ element = [a \in {} |-> None]
  /\ ret = RetNone
  /\ bf_namelist = SN_HEAD
  /\ instance = NewInstance(SN_HEAD)
  /\ inst_id = 0
  /\ exports = <<>>
  /\ format_params = <<>>
  /\ mutated = FALSE
  /\ imported = NoImport
  /\ scene \in BlendFiles

\* scene.to_fds(context, with_children)
CallSceneToFds ==
  /\ pc = "export"
  /\ \E with_children \in BOOLEAN :
       /\ ret' = ScnToFds(scene, with_children)
       /\ op' = IF with_children THEN "to_fds(with_children=True)" ELSE "to_fds()"
  /\ pc' = "done"
  /\ UNCHANGED <<bf_prop, element, nlVars>>

\* ob.to_fds(context, with_children=True) of Object inst_id of the file
CallObjectToFds ==
  /\ pc = "export"
  /\ \E i \in 1..Len(scene.objects) :
       /\ ret' = ObToFds(scene.objects, scene.objects[i], TRUE)
       /\ inst_id' = i
  /\ op' = "ob.to_fds"
  /\ pc' = "done"
  /\ UNCHANGED <<bf_prop, element, bf_namelist, instance, exports, format_params,
                 mutated, imported, scene>>

NextExport == CallSceneToFds \/ CallObjectToFds

SpecExport == InitExport /\ [][NextExport]_vars

(***************************************************************************)
(* Claims on a single property descriptor                                  *)
(***************************************************************************)
Done(method) == pc = "done" /\ op = method

DeclaredDefaultDiffers ==
  bf_prop.fds_default = None \/ get_value(bf_prop, element) # bf_prop.fds_default

ExportFlagAllows ==
  bf_prop.bf_prop_export = "" \/ Truthy(export_value(bf_prop, element))

\* C4: get_exported is true exactly when (fds_default is None or the value
\* differs from fds_default) and (there is no export flag or the flag's value
\* is truthy); a descriptor with no default and no flag is always exported.
C4_GetExported ==
  Done("get_exported") =>
    /\ (ret.kind = "true") <=> (DeclaredDefaultDiffers /\ ExportFlagAllows)
    /\ ret.kind \in {"true", "false"}
    /\ (bf_prop.fds_default = None /\ bf_prop.bf_prop_export = "")
         => ret.kind = "true"

\* a flagged descriptor with a default, flag on, value at the default
C4_Witness ==
  /\ Done("get_exported")
  /\ bf_prop.fds_default # None
  /\ bf_prop.bf_prop_export # ""
  /\ Truthy(export_value(bf_prop, element))
  /\ get_value(bf_prop, element) = bf_prop.fds_default
  /\ ret.kind = "false"

\* the value is None or the empty string
NoneOrEmptyStr(value) == value = None \/ value = EmptyStr

\* C3 as stated: when to_fds does not raise, it returns None exactly when
\* get_exported is false.
C3_NullIffNotExported ==
  (Done("to_fds") /\ ret.kind # "raise") =>
    ((ret = RetNone) <=> ~get_exported(bf_prop, element))

\* C3 as amended: to_fds returns None whenever get_exported is false; for an
\* exported descriptor that does not raise it returns None exactly when the
\* value is None or the empty string or the descriptor is a BFNoAutoExportMod
\* one, and a string otherwise.
C3_NullWhenNotExportedOrEmpty ==
  (Done("to_fds") /\ ret.kind # "raise") =>
    /\ ~get_exported(bf_prop, element) => ret = RetNone
    /\ get_exported(bf_prop, element) =>
         /\ (ret = RetNone) <=>
              (bf_prop.no_auto_export \/ NoneOrEmptyStr(get_value(bf_prop, element)))
         /\ ret # RetNone => ret.kind = "text" /\ Len(ret.text) > 0

\* an exported descriptor with automatic export whose to_fds returned None
C3_Witness ==
  /\ Done("to_fds")
  /\ get_exported(bf_prop, element)
  /\ ~bf_prop.no_auto_export
  /\ get_value(bf_prop, element) = EmptyStr
  /\ ret = RetNone

\* what the claims expect one atom to render as
ExpectedAtom(a, precision) ==
  CASE a = PyBool(TRUE) -> <<".", "T", "R", "U", "E", ".">>
    [] a = PyBool(FALSE) -> <<".", "F", "A", "L", "S", "E", ".">>
    [] a = PyInt(0) -> <<"0">>
    [] a = PyInt(3) -> <<"3">>
    [] a = PyInt(4) -> <<"4">>
    [] a = PyInt(5) -> <<"5">>
    [] a = PyInt(-12) -> <<"-", "1", "2">>
    [] a = F_1_5 /\ precision = 3 -> <<"1", ".", "5", "0", "0">>
    [] a = F_1_5 /\ precision = 1 -> <<"1", ".", "5">>
    [] a = F_m0_0004 /\ precision = 3 -> <<"-", "0", ".", "0", "0", "0">>
    [] a = F_m0_0004 /\ precision = 1 -> <<"-", "0", ".", "0">>
    [] a = F_1_2342 /\ precision = 3 -> <<"1", ".", "2", "3", "4">>
    [] a = F_1_2342 /\ precision = 1 -> <<"1", ".", "2">>
    [] a = F_2_7187 /\ precision = 3 -> <<"2", ".", "7", "1", "9">>
    [] a = F_2_7187 /\ precision = 1 -> <<"2", ".", "7">>
    [] a.t = "str" -> <<"'">> \o a.s \o <<"'">>

RECURSIVE ExpectedValues(_, _)
ExpectedValues(atoms, precision) ==
  IF Len(atoms) = 1 THEN ExpectedAtom(atoms[1], precision)
  ELSE ExpectedAtom(atoms[1], precision) \o <<",">>
         \o ExpectedValues(Tail(atoms), precision)

ConfiguredPrecision ==
  IF "precision" \in DOMAIN bf_prop.bpy_other
  THEN bf_prop.bpy_other.precision ELSE 3

\* C5: BFProp.format of a non-empty value renders its elements by type (a
\* scalar as a one-element sequence), comma-joined with no spaces, after
\* 'LABEL=' when fds_label is set and bare otherwise; ID with "example"
\* gives ID='example', COLOR with (3, 4, 5) gives COLOR=3,4,5.
C5_FormatByType ==
  LET value == get_value(bf_prop, element)
      rendered == ExpectedValues(value.items, ConfiguredPrecision)
  IN  (/\ Done("format")
       /\ bf_prop \in PlainPropClasses
       /\ value \notin {None, EmptyStr, Tuple(<<>>)})
      =>
      /\ ret.kind = "text"
      /\ bf_prop.fds_label # <<>> =>
           ret.text = bf_prop.fds_label \o <<"=">> \o rendered
      /\ bf_prop.fds_label = <<>> => ret.text = rendered
      /\ ~In(" ", ret.text)
      /\ (bf_prop.fds_label = T_ID /\ value = Scalar(PyStr(T_example))) =>
           ret.text = <<"I", "D", "=", "'", "e", "x", "a", "m", "p", "l", "e", "'">>
      /\ (bf_prop.fds_label = T_COLOR
            /\ value = Tuple(<<PyInt(3), PyInt(4), PyInt(5)>>)) =>
           ret.text = <<"C", "O", "L", "O", "R", "=", "3", ",", "4", ",", "5">>

\* a tuple of two booleans rendered under a label
C5_Witness ==
  /\ Done("format")
  /\ bf_prop.fds_label = T_COLOR
  /\ get_value(bf_prop, element) = Tuple(<<PyBool(TRUE), PyBool(FALSE)>>)
  /\ ret.kind = "text"

HasDelimiter(text) == In("&", text) \/ In("/", text) \/ In("#", text)

OtherDisallowed == {"&", "/", "#", "DQUOTE", "BQUOTE", "RSQUO"}

\* C6: check of a BFStringProp or BFFreeProp raises when the value holds
\* '&', '/' or '#'; check of a BFFreeProp also raises on an odd number of
\* single quotes, and does not raise on an even number of them when the
\* value holds no other disallowed character.
C6_StringChecks ==
  LET value == StrOf(get_value(bf_prop, element))
  IN  (Done("check") /\ bf_prop.cls \in {"BFStringProp", "BFFreeProp"}) =>
        /\ HasDelimiter(value) => (ret.kind = "raise" /\ ret.err = "BFException")
        /\ bf_prop.cls = "BFFreeProp" =>
             /\ Count("'", value) % 2 = 1 =>
                  (ret.kind = "raise" /\ ret.err = "BFException")
             /\ (Count("'", value) % 2 = 0
                   /\ \A c \in OtherDisallowed : ~In(c, value)) => ret = Ok

\* a free-parameter value with two single quotes passes the check
C6_Witness ==
  /\ Done("check")
  /\ bf_prop.cls = "BFFreeProp"
  /\ Count("'", StrOf(get_value(bf_prop, element))) = 2
  /\ ret = Ok

(***************************************************************************)
(* Claims on namelist export                                               *)
(***************************************************************************)
\* the children of nl, from child i on, whose to_fds raises on el, in order
RECURSIVE FailingFrom(_, _, _)
FailingFrom(nl, el, i) ==
  IF i > Len(nl.bf_props) THEN <<>>
  ELSE LET p == nl.bf_props[i]
           r == to_fds(p, el)
       IN  (IF r.kind = "raise" THEN <<[sender |-> p.bpy_idname, msg |-> r.msg]>>
            ELSE <<>>) \o FailingFrom(nl, el, i + 1)

\* the non-empty strings the children of nl render on el, in declared order
RECURSIVE RenderedFrom(_, _, _)
RenderedFrom(nl, el, i) ==
  IF i > Len(nl.bf_props) THEN <<>>
  ELSE LET r == to_fds(nl.bf_props[i], el)
       IN  (IF r.kind = "text" /\ r.text # <<>> THEN <<r.text>> ELSE <<>>)
             \o RenderedFrom(nl, el, i + 1)

\* each text followed by one space
RECURSIVE SpaceAfterEach(_)
SpaceAfterEach(texts) ==
  IF texts = <<>> THEN <<>>
  ELSE Head(texts) \o <<" ">> \o SpaceAfterEach(Tail(texts))

ExpectedRecord(label, texts) ==
  <<"&">> \o label \o <<" ">> \o SpaceAfterEach(texts) \o <<"/", "\n">>

\* C7: to_fds of an exported namelist goes through every child even after
\* one raised; when k >= 1 children raise it raises one compound error whose
\* nested list holds exactly those k errors, in order, and returns no record.
C7_AllChildErrors ==
  \A i \in 1..Len(exports) :
    LET e == exports[i]
        failing == FailingFrom(bf_namelist, e.element, 1)
    IN  (get_exported(bf_namelist, e.element) /\ Len(failing) >= 1) =>
          /\ e.ret.kind = "raise"
          /\ e.ret.err = "BFException"
          /\ e.ret.errors = failing
          /\ e.ret.text = <<>>

\* three children raise, the first and the last of the declared ones included
C7_Witness ==
  /\ Len(exports) >= 1
  /\ bf_namelist = ON_OBST
  /\ Len(exports[1].ret.errors) = 3
  /\ exports[1].ret.errors[1].sender = "name"
  /\ exports[1].ret.errors[3].sender = "bf_free"

ScalarTexts(ps) ==
  LET strs == SelectSeq(ps, LAMBDA x : x.k = "str")
  IN  [k \in 1..Len(strs) |-> strs[k].text]

NotID(text) == Prefix(text, 3) # <<"I", "D", "=">>

\* C9: with one multiparam of n >= 1 alternative bodies among the params,
\* format gives n records, one per body in order, each with its body, the
\* same non-ID scalar params and no scalar ID= param, wherever the ID and
\* the multiparam sit.
C9_MultiparamExpansion ==
  LET has_label == bf_namelist.fds_label # <<>>
      label == IF has_label THEN bf_namelist.fds_label ELSE format_params[1].text
      rest == IF has_label THEN format_params ELSE Tail(format_params)
      m == SelectSeq(rest, LAMBDA x : x.k = "seq")
      others == SelectSeq(ScalarTexts(rest), NotID)
      record(b) == <<"&">> \o label \o <<" ">> \o b \o <<" ">>
                     \o SpaceAfterEach(others) \o <<"/", "\n">>
  IN  (/\ pc = "done"
       /\ Len(SelectSeq(format_params, LAMBDA x : x.k = "seq")) = 1
       /\ has_label \/ format_params[1] = Param(S_DEVC))
      =>
      /\ ret.kind = "text"
      /\ ret.text = InfoLines(instance.self)
                      \o Concat([k \in 1..Len(m[1].bodies) |-> record(m[1].bodies[k])])
      /\ Count("&", ret.text) = Len(m[1].bodies)
      /\ ~InSub(<<" ">> \o S_ID, ret.text)

\* three bodies, the multiparam after another scalar and before the ID
C9_Witness ==
  /\ pc = "done"
  /\ bf_namelist = ON_OBST
  /\ Len(format_params) = 3
  /\ format_params[1] = Param(S_C)
  /\ format_params[2].k = "seq"
  /\ Len(format_params[2].bodies) = 3
  /\ format_params[3] = Param(S_ID)
  /\ ret.kind = "text"

\* C10: two consecutive exports of a namelist for the same element, with no
\* edit between them, return the same, on one instance or on two, and leave
\* the element as it was.
C10_Idempotent ==
  (Len(exports) = 2 /\ ~mutated) =>
    /\ exports[1].ret = exports[2].ret
    /\ exports[1].element = element

(***************************************************************************)
(* Claims on import                                                        *)
(***************************************************************************)
\* a value with its floats rounded to the precision of the descriptor
RoundedTo(p, value) ==
  LET unit == Pow10(FloatDigits - bpy_other_get(p, "precision", 3))
      round(m) == IF m < 0 THEN -(((2 * (-m) + unit) \div (2 * unit)) * unit)
                  ELSE ((2 * m + unit) \div (2 * unit)) * unit
  IN  [value EXCEPT !.items =
         [i \in 1..Len(value.items) |->
            IF value.items[i].t = "float" THEN PyFloat(round(value.items[i].n))
            ELSE value.items[i]]]

\* whether to_fds of child p puts a parameter in the record of element el
Rendered(p, el) == to_fds(p, el).kind = "text" /\ to_fds(p, el).text # <<>>

\* the managed properties of nl compared by the round trip: those of
\* all_bf_props with a bound attribute, the free-text property aside
Compared(nl) ==
  SelectSeq(AllBfProps(nl), LAMBDA p : p.bpy_idname # "" /\ p.cls # "BFFreeProp")

InStore(text) == InSub(text, scene.texts)

InFreeText(text) ==
  \/ "bf_free" \in DOMAIN scene.self /\ InSub(text, StrOf(scene.self["bf_free"]))
  \/ \E i \in 1..Len(scene.objects) :
       /\ "bf_free" \in DOMAIN scene.objects[i].el
       /\ InSub(text, StrOf(scene.objects[i].el["bf_free"]))

\* the params of a token that the namelist class of index k does not manage
Unmanaged(k, token) ==
  SelectSeq(token.params,
            LAMBDA x : get_by_fds_label(AllBfProps(AllNamelists[k]), x.label) = 0)

\* C2: after Scene.from_fds, returned or raised, the text of every record
\* that was not parsed, whose namelist is unmanaged or whose import failed is
\* in the HEAD free text file, and the text of every unmanaged parameter is
\* there or in the free-text property of the element of its namelist.
C2_NothingDiscarded ==
  (scene.calls >= 1 /\ scene.ret.err # "ValueError") =>
    LET document == scene.document
    IN  IF \E i \in 1..Len(document) : ~Parseable(document[i])
        THEN \A i \in 1..Len(document) :
               ~Parseable(document[i]) => InStore(document[i])
        ELSE \A i \in 1..Len(document) :
               LET token == Tokenize(document[i])
                   k == get_imported_bf_namelist_cls(token.label, token.params)
               IN  /\ k = 0 => InStore(token.original)
                   /\ (\E j \in 1..Len(scene.failed) :
                         scene.failed[j] = token.original) => InStore(token.original)
                   /\ k # 0 =>
                        \A j \in 1..Len(Unmanaged(k, token)) :
                          LET x == Unmanaged(k, token)[j]
                              text == x.label \o <<"=">> \o x.fds_value
                          IN  InStore(text) \/ InFreeText(text)

(***************************************************************************)
(* Claims on the import of tokens by a namelist or a descriptor            *)
(***************************************************************************)
NamelistImported == pc = "done" /\ op = "from_fds"
PropImported == pc = "done" /\ op = "prop.from_fds"

\* fds_label + "=" + fds_value of a token
TokenText(token) == token.label \o <<"=">> \o token.fds_value

\* whether no descriptor of all_bf_props of nl has the label of the token
UnmanagedBy(nl, token) == get_by_fds_label(AllBfProps(nl), token.label) = 0

\* the value of the free-text property of nl on el
FreeTextOf(nl, el) == StrOf(el[nl.bf_props[bf_prop_free(nl)].bpy_idname])

\* C11: after BFNamelist.from_fds on a namelist that has a free-text
\* property, the value of that property contains the text label=value of
\* every token whose label no descriptor of all_bf_props has, whether or not
\* other tokens of the import raised.
C11_UnmanagedKept ==
  (NamelistImported /\ bf_prop_free(bf_namelist) # 0) =>
    \A i \in 1..Len(imported.tokens) :
      UnmanagedBy(bf_namelist, imported.tokens[i]) =>
        InSub(TokenText(imported.tokens[i]), FreeTextOf(bf_namelist, element))

\* an OBST import of FOO=1 and BAR='b' next to an ID that raises
C11_Witness ==
  /\ NamelistImported
  /\ bf_namelist = ON_OBST
  /\ Len(imported.tokens) = 3
  /\ \E i \in 1..3 : imported.tokens[i] = ParamToken(W_ID3)
  /\ ret.kind = "raise"
  /\ InSub(W_FOO, FreeTextOf(ON_OBST, element))
  /\ InSub(W_BAR, FreeTextOf(ON_OBST, element))

\* the descriptor of all_bf_props of nl that manages the token
ManagerOf(nl, token) ==
  AllBfProps(nl)[get_by_fds_label(AllBfProps(nl), token.label)]

\* whether the import of the token by its descriptor on el raises: the
\* descriptor has no automatic import, or setattr refuses the value
Refused(nl, el, token) ==
  LET p == ManagerOf(nl, token)
  IN  \/ p.no_auto_import
      \/ /\ p.bpy_idname # ""
         /\ p.bpy_idname \notin DOMAIN el \/ ~Accepts(p.bpy_prop, token.value)

\* the tokens of the import that a descriptor manages
Managed(nl, tokens) == SelectSeq(tokens, LAMBDA t : ~UnmanagedBy(nl, t))

\* C12: BFNamelist.from_fds goes through every token whatever the earlier
\* ones did: every managed token that its descriptor accepts has its value
\* on the element afterwards, with the export flag of the descriptor set,
\* also when the call raises; when k >= 1 tokens were refused the call
\* raises one BFException holding exactly k errors, one for each refused
\* token, and it raises nothing when none was refused.
C12_PartialApply ==
  (NamelistImported /\ imported.tokens # <<>>) =>
    LET tokens == Managed(bf_namelist, imported.tokens)
        refused == SelectSeq(tokens, LAMBDA t : Refused(bf_namelist, element, t))
    IN  /\ \A i \in 1..Len(tokens) :
             LET p == ManagerOf(bf_namelist, tokens[i])
             IN  ~Refused(bf_namelist, element, tokens[i]) =>
                   /\ get_value(p, element) = Stored(p.bpy_prop, tokens[i].value)
                   /\ p.bf_prop_export # "" =>
                        export_value(p, element) = Scalar(PyBool(TRUE))
        /\ refused = <<>> => ret = RetNone
        /\ refused # <<>> =>
             /\ ret.kind = "raise"
             /\ ret.err = "BFException"
             /\ Len(ret.errors) = Len(refused)
             /\ \A i \in 1..Len(refused) :
                  \E j \in 1..Len(ret.errors) :
                    ret.errors[j] = ImportError(ManagerOf(bf_namelist, refused[i]),
                                                refused[i].value)

\* an OBST import whose first two tokens are refused and whose third is
\* applied to an element that held nothing
C12_Witness ==
  /\ NamelistImported
  /\ bf_namelist = ON_OBST
  /\ imported.source = FreshElement(ON_OBST)
  /\ imported.tokens = <<ParamToken(W_ID3), ParamToken(W_THICKNESS_q), ParamToken(W_FYI)>>
  /\ ret.kind = "raise"
  /\ Len(ret.errors) = 2
  /\ element["bf_fyi"] = Str1(<<"f">>)

(***************************************************************************)
(* Claims on the import of a document by the scene                         *)
(***************************************************************************)
\* the namelist class BFScene.from_fds imports the record with, when it has one
ClassOf(token) ==
  AllNamelists[get_imported_bf_namelist_cls(token.label, token.params)]

ManagedRecord(token) ==
  get_imported_bf_namelist_cls(token.label, token.params) # 0

\* whether the import of the record by its namelist raises: one of its
\* params is managed and refused
RecordFails(token) ==
  /\ ManagedRecord(token)
  /\ \E j \in 1..Len(token.params) :
       /\ ~UnmanagedBy(ClassOf(token), token.params[j])
       /\ Refused(ClassOf(token), FreshElement(ClassOf(token)), token.params[j])

AllParsed(document) == \A i \in 1..Len(document) : Parseable(document[i])

\* what C13 expects of one call of Scene.from_fds, from sc to sc2
C13_Call(sc, sc2) ==
  LET document == sc2.document
      tokens == [i \in 1..Len(document) |-> Tokenize(document[i])]
      made == SelectSeq(tokens, LAMBDA t : ManagedRecord(t) /\ ClassOf(t).bpy_type # "Scene")
      failing == SelectSeq(tokens, RecordFails)
  IN  IF AllParsed(document)
      THEN /\ Len(sc2.objects) = Len(sc.objects) + Len(made)
           /\ \A i \in 1..Len(tokens) :
                ~ManagedRecord(tokens[i]) => InSub(tokens[i].original, sc2.texts)
           /\ \A i \in 1..Len(failing) :
                \E j \in 1..Len(failing[i].params) :
                  InSub(<<"!", " ">> \o ImportMessage(failing[i].params[j].value),
                        sc2.texts)
           /\ IF failing # <<>>
              THEN sc2.ret = Raise("BFException", MsgSummary)
              ELSE sc2.ret = RetNone
      ELSE /\ sc2.ret = Raise("BFException", MsgSummary)
           /\ sc2.objects = sc.objects
           /\ \A i \in 1..Len(document) : InSub(document[i], sc2.texts)

\* C13: a record whose namelist import raises a BFException does not end
\* Scene.from_fds: every record of the document is still imported (an
\* element is made for each Object or Material record, each unmanaged
\* record is kept), the free texts, the messages of the errors among them,
\* are written to the HEAD free text file, and then one summary BFException
\* is raised exactly when the tokenizer or the import of a record failed.
C13_NoAbort ==
  [][scene'.calls = scene.calls + 1 => C13_Call(scene, scene')]_vars

\* a failing OBST record followed by one that imports
C13_Witness ==
  /\ scene.calls = 1
  /\ scene.document = <<R_OBST_ID3, R_OBST>>
  /\ scene.ret = Raise("BFException", MsgSummary)
  /\ Len(scene.objects) = 2
  /\ scene.objects[2].el["name"] = Str1(<<"x">>)
  /\ InStore(ImportMessage(Scalar(PyInt(3))))

(***************************************************************************)
(* Claims on the export of a document by the scene                         *)
(***************************************************************************)
SceneExported == pc = "done" /\ op \in {"to_fds()", "to_fds(with_children=True)"}
FullExported == pc = "done" /\ op = "to_fds(with_children=True)"
PartExported == pc = "done" /\ op = "to_fds()"

\* what the namelists of the scene and, in a full export, of the Materials
\* raise when each is exported by itself
Failures ==
  SelectSeq([i \in 1..Len(bf_namelists) |-> ExportBy(bf_namelists[i], scene.self)]
              \o (IF FullExported
                  THEN [i \in 1..Len(scene.materials) |-> MaToFds(scene.materials[i])]
                  ELSE <<>>),
            LAMBDA r : r.kind = "raise")

\* whether the error raised covers the error of one namelist: it is that
\* error, or it holds it or each of its child errors
Covers(raised, err) ==
  \/ raised = err
  \/ \E k \in 1..Len(raised.errors) : raised.errors[k] = err
  \/ \A j \in 1..Len(err.errors) :
       \E k \in 1..Len(raised.errors) : raised.errors[k] = err.errors[j]

\* C14: when namelists of the scene or of its Materials fail their checks,
\* Scene.to_fds raises one error that covers the errors of all of them.
C14_AllFailuresCollected ==
  (SceneExported /\ Failures # <<>>) =>
    /\ ret.kind = "raise"
    /\ \A i \in 1..Len(Failures) : Covers(ret, Failures[i])

\* the value BFProp.from_fds was called with
GivenValue == imported.tokens[1].value

\* whether setattr of the bound attribute refuses the value
SetRefused ==
  /\ bf_prop.bpy_idname # ""
  /\ bf_prop.bpy_idname \notin DOMAIN imported.source
       \/ ~Accepts(bf_prop.bpy_prop, GivenValue)

\* C15: BFProp.from_fds sets the bound attribute to the value and then the
\* export flag of the descriptor to True, and changes nothing else; when the
\* attribute refuses the value it raises one BFException whose sender is
\* the descriptor and whose message quotes the value, and the element, its
\* export flag included, is as it was.
C15_PropImport ==
  (PropImported /\ ~bf_prop.no_auto_import) =>
    IF SetRefused
    THEN /\ ret.kind = "raise"
         /\ ret.err = "BFException"
         /\ ret.sender = bf_prop.bpy_idname
         /\ ret.text = ImportMessage(GivenValue)
         /\ InSub(<<"'">> \o ValueStr(GivenValue) \o <<"'">>, ret.text)
         /\ ret.errors = <<>>
         /\ element = imported.source
    ELSE /\ ret = RetNone
         /\ \A a \in DOMAIN element :
              element[a] =
                IF a = bf_prop.bpy_idname THEN Stored(bf_prop.bpy_prop, GivenValue)
                ELSE IF a = bf_prop.bf_prop_export THEN Scalar(PyBool(TRUE))
                ELSE imported.source[a]

\* THICKNESS of an OBST given a str: refused, the export flag stays off
C15_Witness ==
  /\ PropImported
  /\ bf_prop = P_THICKNESS
  /\ GivenValue = Str1(<<"q">>)
  /\ ret.kind = "raise"
  /\ imported.source["bf_thickness_export"] = Scalar(PyBool(FALSE))
  /\ element["bf_thickness_export"] = Scalar(PyBool(FALSE))

\* THICKNESS of an OBST given 1.5: set, the export flag turned on
C15_WitnessSet ==
  /\ PropImported
  /\ bf_prop = P_THICKNESS
  /\ imported.source["bf_thickness_export"] = Scalar(PyBool(FALSE))
  /\ element["bf_thickness"] = Scalar(F_1_5)
  /\ element["bf_thickness_export"] = Scalar(PyBool(TRUE))

\* the records of the namelists of the scene, HEAD (enum_id 3001) before
\* TIME (enum_id 3002), and the empty line that ends them
OwnRecords ==
  LET records == ExportBy(SN_HEAD, scene.self).text \o ExportBy(SN_TIME, scene.self).text
  IN  IF records # <<>> THEN records \o <<"\n">> ELSE <<>>

\* C16: Scene.to_fds with with_children set returns the header comments,
\* the records of the scene's namelists in the order of their enum_id, the
\* free text block, the children and the record '&TAIL /' with its comment,
\* in this order; with with_children unset it returns the records of the
\* scene's namelists and the free text block and nothing else.
C16_DocumentLayout ==
  (SceneExported /\ ret.kind # "raise") =>
    /\ ret.kind = "text"
    /\ FullExported =>
         /\ ret.text = ScnHeaderToFds(scene).text \o OwnRecords
                         \o ScnFreeTextToFds(scene).text
                         \o ScnChildrenToFds(scene).text \o TailRecord
         /\ Prefix(ret.text, 14) = <<"!", " ", "G", "e", "n", "e", "r", "a", "t", "e", "d", " ", "b", "y">>
         /\ InSub(<<"&", "T", "A", "I", "L", " ", "/", "\n", "!", " ", "G", "e", "n", "e", "r", "a", "t", "e", "d", " ", "i", "n">>, ret.text)
    /\ PartExported =>
         /\ ret.text = OwnRecords \o ScnFreeTextToFds(scene).text
         /\ ~InSub(<<"!", " ", "G", "e", "n", "e", "r", "a", "t", "e", "d">>, ret.text)
         /\ ~InSub(<<"&", "T", "A", "I", "L">>, ret.text)
         /\ ~InSub(BoundaryTitle, ret.text)
         /\ ~InSub(GeometryTitle, ret.text)

\* a full export of a scene with both namelists exported, a free text, a
\* Material and an Object
C16_Witness ==
  /\ FullExported
  /\ ret.kind = "text"
  /\ scene.self["bf_time_export"] = Scalar(PyBool(TRUE))
  /\ scene.texts # <<>>
  /\ Len(scene.materials) = 1
  /\ Len(scene.objects) = 1
  /\ InSub(<<"&", "H", "E", "A", "D", " ", "C", "H", "I", "D", "=", "'", "a", "'", " ", "T", "I", "T", "L", "E", "=", "'", "t", "'", " ", "/", "\n", "&", "T", "I", "M", "E", " ", "T", "_", "E", "N", "D", "=", "1", ".", "5", "0", "0", " ", "/", "\n", "\n", "!", " ", "-", "-", "-", " ", "F", "r", "e", "e", " ", "t", "e", "x", "t", ":", " ", "'", "t", "'", "\n", "!", " ", "o", "l", "d", "\n", "\n", "!", " ", "-", "-", "-", " ", "B", "o", "u", "n", "d", "a", "r", "y">>, ret.text)
  /\ InSub(<<"&", "S", "U", "R", "F", " ", "I", "D", "=", "'", "a", "'", " ", "C", "O", "L", "O", "R", "=", "0", ",", "0", ",", "0", " ", "/", "\n", "\n", "!", " ", "-", "-", "-", " ", "G", "e", "o", "m", "e", "t", "r", "i", "c">>, ret.text)
  /\ InSub(<<"&", "O", "B", "S", "T", " ", "I", "D", "=", "'", "a", "'", " ", "/", "\n", "\n", "&", "T", "A", "I", "L", " ", "/">>, ret.text)

\* the first place of sub in text, 0 when it is not there
Pos(sub, text) ==
  IF InSub(sub, text)
  THEN CHOOSE i \in 1..Len(text) :
         /\ SubSeq(text, i, i + Len(sub) - 1) = sub
         /\ \A j \in 1..(i - 1) : SubSeq(text, j, j + Len(sub) - 1) # sub
  ELSE 0

\* the start of what an exported Object or Material puts in the document
ObjectMark(ob) ==
  IF ob.type = "EMPTY" THEN <<"!", " ", "-", "-", " ">> \o NameOf(ob) \o <<":">>
  ELSE <<"&">> \o ExportNamelists[NamelistNamed(ob.bf_namelist_cls)].fds_label
         \o <<" ", "I", "D", "=", "'">> \o NameOf(ob) \o <<"'">>

MaterialMark(ma) == <<"&", "S", "U", "R", "F", " ", "I", "D", "=", "'">> \o NameOf(ma) \o <<"'">>

Shown(ob) == Truthy(ob.el["bf_export"])

\* whether the Object named a is d or an ancestor of d
RECURSIVE InSubtree(_, _, _, _)
InSubtree(objects, a, d, steps) ==
  \/ NameOf(d) = a
  \/ /\ steps > 0
     /\ d.parent # <<>>
     /\ \E i \in 1..Len(objects) :
          /\ NameOf(objects[i]) = d.parent
          /\ InSubtree(objects, a, objects[i], steps - 1)

\* the order C17 gives two children of one parent
ExportedBefore(x, y) ==
  \/ x.bf_namelist_cls = "ON_MESH" /\ y.bf_namelist_cls # "ON_MESH"
  \/ /\ (x.bf_namelist_cls = "ON_MESH") = (y.bf_namelist_cls = "ON_MESH")
     /\ StrLess(NameOf(x), NameOf(y))

\* the Objects the call exports: all of them, or those under the Object the
\* call is on
InCall(ob) ==
  \/ FullExported
  \/ InSubtree(scene.objects, NameOf(scene.objects[inst_id]), ob, Len(scene.objects))

\* C17: in the text of an export that raises nothing, every exported
\* Material is there, in the order of the names, before every Object; every
\* exported Object is there after its parent; and of two children of one
\* parent (or two Objects without parent) the one bound to ON_MESH, or of
\* the two of one group the one of the smaller name, comes first with all
\* its descendants before the other and all of its descendants.
C17_ChildrenOrder ==
  ((FullExported \/ (pc = "done" /\ op = "ob.to_fds")) /\ ret.kind = "text") =>
    LET obs == scene.objects
        mas == SelectSeq(scene.materials, LAMBDA m : NameOf(m) \notin Predefined)
        op_(x) == Pos(ObjectMark(x), ret.text)
        mp(m) == Pos(MaterialMark(m), ret.text)
    IN  /\ \A i \in 1..Len(obs) : (Shown(obs[i]) /\ InCall(obs[i])) => op_(obs[i]) > 0
        /\ FullExported =>
             /\ \A i \in 1..Len(mas) : mp(mas[i]) > 0
             /\ \A i, j \in 1..Len(mas) :
                  StrLess(NameOf(mas[i]), NameOf(mas[j])) => mp(mas[i]) < mp(mas[j])
             /\ \A i \in 1..Len(mas) : \A j \in 1..Len(obs) :
                  Shown(obs[j]) => mp(mas[i]) < op_(obs[j])
        /\ \A i, j \in 1..Len(obs) :
             (/\ i # j /\ Shown(obs[i]) /\ Shown(obs[j])
              /\ InCall(obs[i]) /\ InCall(obs[j])
              /\ InSubtree(obs, NameOf(obs[i]), obs[j], Len(obs)))
               => op_(obs[i]) < op_(obs[j])
        /\ \A x, y \in 1..Len(obs) :
             (/\ obs[x].parent = obs[y].parent
              /\ ExportedBefore(obs[x], obs[y])
              /\ InCall(obs[x]) /\ InCall(obs[y]))
               => \A i, j \in 1..Len(obs) :
                    (/\ Shown(obs[i]) /\ Shown(obs[j])
                     /\ InSubtree(obs, NameOf(obs[x]), obs[i], Len(obs))
                     /\ InSubtree(obs, NameOf(obs[y]), obs[j], Len(obs)))
                      => op_(obs[i]) < op_(obs[j])

\* a full export of three Objects listed as a, ab, b: the MESH b comes
\* first, then the OBST a followed by its child ab
C17_Witness ==
  /\ FullExported
  /\ ret.kind = "text"
  /\ Len(scene.objects) = 3
  /\ scene.objects[1] = MakeObject(<<"a">>, "obst", <<>>)
  /\ scene.objects[2] = MakeObject(<<"a", "b">>, "obst", <<"a">>)
  /\ scene.objects[3] = MakeObject(<<"b">>, "mesh", <<>>)
  /\ InSub(<<"&", "M", "E", "S", "H", " ", "I", "D", "=", "'", "b", "'", " ", "/", "\n", "&", "O", "B", "S", "T", " ", "I", "D", "=", "'", "a", "'", " ", "/", "\n", "&", "O", "B", "S", "T", " ", "I", "D", "=", "'", "a", "b", "'", " ", "/", "\n", "\n", "\n", "&", "T", "A", "I", "L">>, ret.text)

\* the descriptors of nl with an FDS label and a Blender property, the
\* free-text one aside
LabelledProps(nl) ==
  SelectSeq(AllBfProps(nl),
            LAMBDA p : p.fds_label # <<>> /\ p.bpy_idname # "" /\ p.cls # "BFFreeProp")

NamedBy(tokens, p) == \E i \in 1..Len(tokens) : tokens[i].label = p.fds_label

\* C18: after BFNamelist.from_fds on a namelist of the scene every labelled
\* property that no token named has the value of a new element, whatever
\* the element held before; on a namelist of an Object or a Material every
\* such property has the value it had before the call.
C18_SceneReset ==
  NamelistImported =>
    LET props == LabelledProps(bf_namelist)
    IN  \A i \in 1..Len(props) :
          ~NamedBy(imported.tokens, props[i]) =>
            get_value(props[i], element) =
              IF bf_namelist.bpy_type = "Scene"
              THEN get_value(props[i], FreshElement(bf_namelist))
              ELSE get_value(props[i], imported.source)

(***************************************************************************)
(* Claims on the free text file of the scene across imports                *)
(***************************************************************************)
\* whether the import of the document gives the scene nothing to keep as
\* free text: every record is parsed, managed, and imported with no error
NothingUnmanaged(document) ==
  /\ AllParsed(document)
  /\ \A i \in 1..Len(document) :
       /\ ManagedRecord(Tokenize(document[i]))
       /\ ~RecordFails(Tokenize(document[i]))

\* what C19 expects of one call of Scene.from_fds, from sc to sc2
C19_Call(sc, sc2) ==
  LET document == sc2.document
      n == Len(sc2.texts) - Len(sc.texts)
      added == SubSeq(sc2.texts, 1, n)
  IN  /\ n >= 0
      /\ SubSeq(sc2.texts, n + 1, Len(sc2.texts)) = sc.texts
      /\ NothingUnmanaged(document) => sc2.texts = sc.texts
      /\ ~NothingUnmanaged(document) =>
           /\ n > 0
           /\ sc.texts # <<>> => added[n] = "\n"
           /\ \A i \in 1..Len(document) :
                IF ~AllParsed(document) THEN InSub(document[i], added)
                ELSE LET token == Tokenize(document[i])
                     IN  /\ ~ManagedRecord(token) => InSub(token.original, added)
                         /\ RecordFails(token) =>
                              \E j \in 1..Len(token.params) :
                                InSub(<<"!", " ">> \o ImportMessage(token.params[j].value),
                                      added)

\* C19: every call of Scene.from_fds leaves in the free text file what the
\* file held before the call, whole and at its end, after the texts the
\* call had to keep (the original of every record no namelist manages, the
\* message of every import that failed) and a newline between the two; a
\* call that has nothing to keep leaves the file as it was.
C19_StoreMerged == [][scene'.calls = scene.calls + 1 => C19_Call(scene, scene')]_vars

\* a second import with an unmanaged record, after a first one with another,
\* into a file that held a line: the three are in the file, latest first
C19_Witness ==
  /\ scene.calls = 2
  /\ scene.document = <<R_SURF_ID>>
  /\ scene.texts = R_SURF_ID \o <<"\n">> \o R_ZZZ \o <<"\n">> \o T_old

(***************************************************************************)
(* Claims on the export flags                                              *)
(***************************************************************************)
\* the export flags among all_bf_props of nl: that of the namelist and those
\* of its bf_props
ExportFlags(nl) == SelectSeq(AllBfProps(nl), LAMBDA p : p.cls = "BFExportProp")

\* the parameter the flag would be in a record: its value as format renders
\* it, between two separators
FlagParam(f, el) == <<" ">> \o format(f, get_value(f, el)).text \o <<" ">>

\* whether a record of nl for el shows no export flag and only what the
\* flags let through: nothing when the flag of the namelist is off, no
\* parameter of a child whose flag is off
FlagsOnlyGate(nl, e) ==
  /\ \A i \in 1..Len(ExportFlags(nl)) :
       e.ret.kind = "text" => ~InSub(FlagParam(ExportFlags(nl)[i], e.element), e.ret.text)
  /\ (nl.bf_prop_export # "" /\ ~Truthy(export_value(nl, e.element))) => e.ret = RetNone
  /\ \A i \in 1..Len(nl.bf_props) :
       LET p == nl.bf_props[i]
       IN  (/\ e.ret.kind = "text"
            /\ p.bf_prop_export # ""
            /\ ~Truthy(export_value(p, e.element)))
             => ~InSub(<<" ">> \o p.fds_label \o <<"=">>, e.ret.text)

\* C20 as stated: every export flag is a BoolProperty with fds_default False
\* and no fds_label, and no exported record holds the value of a flag as a
\* parameter.
C20_ExportFlag ==
  \A k \in 1..Len(exports) :
    /\ \A i \in 1..Len(ExportFlags(bf_namelist)) :
         LET f == ExportFlags(bf_namelist)[i]
         IN  /\ f.bpy_prop = "BoolProperty"
             /\ f.fds_default = Scalar(PyBool(FALSE))
             /\ f.fds_label = <<>>
    /\ FlagsOnlyGate(bf_namelist, exports[k])

\* C20 amended: every export flag is a BoolProperty whose default as a
\* Blender property is False, with no fds_default and no fds_label, and no
\* exported record holds the value of a flag as a parameter: the flag of the
\* namelist only decides whether there is a record, the flag of a property
\* whether its parameter is in it.
C20_ExportFlag_amended ==
  \A k \in 1..Len(exports) :
    /\ \A i \in 1..Len(ExportFlags(bf_namelist)) :
         LET f == ExportFlags(bf_namelist)[i]
         IN  /\ f.bpy_prop = "BoolProperty"
             /\ f.fds_default = None
             /\ RegisteredDefault(f) = Scalar(PyBool(FALSE))
             /\ f.fds_label = <<>>
    /\ FlagsOnlyGate(bf_namelist, exports[k])

\* an OBST exported with both flags on: the record has the THICKNESS of the
\* element and no flag
C20_Witness ==
  /\ Len(exports) >= 1
  /\ bf_namelist = ON_OBST
  /\ exports[1].element["bf_export"] = Scalar(PyBool(TRUE))
  /\ exports[1].element["bf_thickness_export"] = Scalar(PyBool(TRUE))
  /\ exports[1].ret.kind = "text"
  /\ InSub(<<" ", "T", "H", "I", "C", "K", "N", "E", "S", "S", "=", "1", ".", "5", "0", "0", " ">>, exports[1].ret.text)
  /\ ~InSub(<<".", "T", "R", "U", "E", ".">>, exports[1].ret.text)

(***************************************************************************)
(* Claims on the formatting of empty values                                *)
(***************************************************************************)
\* the empty values: None, the empty string, the empty sequence
EmptyValues == {None, EmptyStr, Tuple(<<>>)}

\* C21: format of a descriptor returns None, and raises nothing, when the
\* value is None, the empty string or an empty sequence.
C21_EmptyIsNull ==
  (Done("format") /\ get_value(bf_prop, element) \in EmptyValues) => ret = RetNone

(***************************************************************************)
(* Claims on the order in which a namelist imports its tokens              *)
(***************************************************************************)
\* the order C22 gives tokens i and j of the input: SURF_ID after the
\* others, the others as in the input
ImportedBefore(tokens, i, j) ==
  /\ tokens[i].label # T_SURF_ID
  /\ tokens[j].label = T_SURF_ID \/ i < j

\* the place in errors of the error the descriptor of the token raised, 0
\* when there is none
ErrorPlace(nl, errors, token) ==
  LET at == {k \in 1..Len(errors) :
               /\ "sender" \in DOMAIN errors[k]
               /\ errors[k].sender = ManagerOf(nl, token).bpy_idname}
  IN  IF at = {} THEN 0 ELSE CHOOSE k \in at : TRUE

\* C22: what BFNamelist.from_fds leaves shows the order of the imports: of
\* two tokens no descriptor manages, the text of the one imported first
\* comes first in the free text; of two tokens whose descriptors refuse
\* them, the error of the one imported first comes first in the errors of
\* the BFException; where imported first means: SURF_ID after every other
\* token, the others in the order of the input.
C22_SurfIdLast ==
  NamelistImported =>
    LET tokens == imported.tokens
        nl == bf_namelist
    IN  \A i, j \in 1..Len(tokens) :
          ImportedBefore(tokens, i, j) =>
            /\ (/\ bf_prop_free(nl) # 0
                /\ UnmanagedBy(nl, tokens[i])
                /\ UnmanagedBy(nl, tokens[j]))
                 => /\ Pos(TokenText(tokens[i]), FreeTextOf(nl, element)) > 0
                    /\ Pos(TokenText(tokens[i]), FreeTextOf(nl, element))
                         < Pos(TokenText(tokens[j]), FreeTextOf(nl, element))
            /\ (/\ ~UnmanagedBy(nl, tokens[i])
                /\ ~UnmanagedBy(nl, tokens[j])
                /\ Refused(nl, element, tokens[i])
                /\ Refused(nl, element, tokens[j]))
                 => /\ ret.kind = "raise"
                    /\ ErrorPlace(nl, ret.errors, tokens[i]) > 0
                    /\ ErrorPlace(nl, ret.errors, tokens[i])
                         < ErrorPlace(nl, ret.errors, tokens[j])

\* an OBST import of SURF_ID='s', FOO=1, BAR='b' in that order: the free
\* text has FOO and BAR as in the input and SURF_ID after them
C22_Witness ==
  /\ NamelistImported
  /\ bf_namelist = ON_OBST
  /\ imported.tokens = <<ParamToken(W_SURF_ID), ParamToken(W_FOO), ParamToken(W_BAR)>>
  /\ FreeTextOf(ON_OBST, element) = W_FOO \o <<" ">> \o W_BAR \o <<" ">> \o W_SURF_ID

====
